---- MODULE Spec2Model ----
(***************************************************************************)
(* Market Data Bridge: the Backtest Replay Engine (backtest_replay.py),    *)
(* the live bridge (tv_data_bridge.py), the option Snapshot Store          *)
(* (backfill_trendlyne.py) and the Symbol Resolver (SymbolMaster.py).      *)
(*                                                                         *)
(* Conventions.  A time bucket "HH:MM" is the pair <<HH, MM>>; strings of  *)
(* that zero-padded form compare as these pairs compare lexicographically. *)
(* A date "YYYY-MM-DD" is a day number (ISO dates compare as day numbers). *)
(* A ratio is kept in hundredths (1.0 is 100, 1.25 is 125).                *)
(* A websocket is a client id; conn[c] is "none" (no connection), "open",  *)
(* or "closed" (the connection is gone but the handler coroutine has not   *)
(* yet run its finally block, so c is still in the clients set).           *)
(***************************************************************************)
EXTENDS Integers, Sequences, FiniteSets, TLC

VARIABLES
    clients,        \* self.clients of the running server
    conn,           \* state of each websocket connection
    everConnected,  \* history: some client has been registered
    pc,             \* position of start_server / replay_loop
    idx,            \* position in the for-loop over ['NIFTY', 'BANKNIFTY']
    start_time, end_time, speed,   \* constructor arguments
    candle_data,    \* self.candle_data: bucket -> list of candle rows
    current_dt,     \* replay_loop's current_dt, in minutes of the day
    current_time,   \* self.current_time
    option_aggregates,      \* table option_aggregates (set of rows)
    option_chain_details,   \* table option_chain_details (set of rows)
    log,            \* history: the messages built and handed to the fan-out
    lastTargets,    \* history: the send targets of the last fan-out
    lastDelivered,  \* history: the targets whose send succeeded
    sleeps,         \* history: the sleeps replay_loop has taken, in order
    pcr_data,       \* TVCandleBridge.pcr_data
    fc_pc,          \* "idle", or "done" after a call of fetch_candles
    fc_in,          \* what the providers answered during that call
    fc_result,      \* what fetch_candles returned
    sent,           \* the fan-out of the live bridge's last step, None if it sent nothing
    market_breadth, \* table market_breadth (set of rows)
    pcr_history,    \* table pcr_history (set of rows)
    STOCK_ID_CACHE, EXPIRY_CACHE,   \* module caches; 0 stands for "no entry"
    now,            \* the wall clock, in minutes of the day TargetDate
    task,           \* the four periodic tasks: "running" or "crashed"
    oc_pc,          \* broadcast_option_chain: "sleep", "fetch" or "send"
    oc_idx,         \* its position in the for-loop over NIFTY, BANKNIFTY
    oc_chain,       \* the chain its fetch returned, awaiting the send
    TrendlyneDB,    \* whether backfill_trendlyne could be imported
    backtest_candles, \* table backtest_candles of the backtest data file
    tk_pc,          \* a call under study: "idle" or "done"
    tk_in,          \* the answers of the providers to that call
    tk_prev,        \* the state the call started from
    tk_result,      \* what the call returned
    mappings,       \* SymbolMaster._mappings: upper-cased symbol -> instrument key
    reverse_mappings,   \* SymbolMaster._reverse_mappings: instrument key -> symbol
    initialized,    \* SymbolMaster._initialized
    cache_file,     \* the file upstox_instruments.json.gz on disk
    im_pc,          \* position of each caller of the resolver inside initialize
    im_content      \* the local variable content of each caller's initialize

vars == <<clients, conn, everConnected, pc, idx, start_time, end_time, speed,
          candle_data, current_dt, current_time, option_aggregates,
          option_chain_details, log, lastTargets, lastDelivered, sleeps,
          pcr_data, fc_pc, fc_in, fc_result, sent, market_breadth,
          pcr_history, STOCK_ID_CACHE, EXPIRY_CACHE, now, task, oc_pc, oc_idx,
          oc_chain, TrendlyneDB, tk_pc, tk_in, tk_prev, tk_result, backtest_candles,
          mappings, reverse_mappings, initialized, cache_file, im_pc, im_content>>

storeVars == <<option_aggregates, option_chain_details, market_breadth, pcr_history,
               backtest_candles>>
fanVars == <<lastTargets, lastDelivered>>
cacheVars == <<STOCK_ID_CACHE, EXPIRY_CACHE>>
ocVars == <<oc_pc, oc_idx, oc_chain>>
taskVars == <<task, ocVars, TrendlyneDB>>
paramVars == <<start_time, end_time, speed, candle_data>>
tickVars == <<tk_pc, tk_in, tk_prev, tk_result>>
fetchVars == <<fc_pc, fc_in, fc_result, tickVars>>
resolverVars == <<mappings, reverse_mappings, initialized, cache_file, im_pc, im_content>>
liveVars == <<pcr_data, fetchVars, sent, cacheVars, now, taskVars, resolverVars>>
replayVars == <<everConnected, pc, idx, paramVars, current_dt, current_time, log, sleeps>>

(***************************************************************************)
(* Bounds of the model.                                                    *)
(***************************************************************************)
NumBuckets == 3         \* minutes of the day the replayed data may cover
BaseMinute == 598       \* first such minute (09:58: the window crosses 10:00)

Clients == {"c1", "c2"}
OneClient == {"c1"}
Window == BaseMinute .. (BaseMinute + NumBuckets - 1)

(***************************************************************************)
(* Program constants.                                                      *)
(***************************************************************************)
TargetDate == 5         \* --date default 2026-01-05
InstantSpeed == 999     \* if self.speed < 999
NormalSpeed == 5        \* the usage example's --speed 5
DefaultPcr == 100       \* the 1.0 fallback ratio

IndexSymbols == <<"NIFTY", "BANKNIFTY">>
Speeds == {NormalSpeed, InstantSpeed}

(***************************************************************************)
(* Time conversions.                                                       *)
(***************************************************************************)
\* datetime.strptime(f"{date} {s}", "%Y-%m-%d %H:%M"), as minutes of the day
ParseTime(s) == s[1] * 60 + s[2]

\* dt.strftime("%H:%M")
TimeStr(m) == <<m \div 60, m % 60>>

\* int(dt.timestamp() * 1000)
EpochMs(d, s) == ((d * 1440) + ParseTime(s)) * 60000

\* string comparison a < b of two (date, "HH:MM") pairs, as ORDER BY uses it
\* mutant: ORDER BY timestamp alone
StampLess_TimeOnly(d1, t1, d2, t2) ==
    \/ t1[1] < t2[1]
    \/ t1[1] = t2[1] /\ t1[2] < t2[2]

StampLess(d1, t1, d2, t2) ==
    \/ d1 < d2
    \/ d1 = d2 /\ t1[1] < t2[1]
    \/ d1 = d2 /\ t1[1] = t2[1] /\ t1[2] < t2[2]

(***************************************************************************)
(* Snapshot Store reads (OptionDatabase).                                  *)
(***************************************************************************)
None == [none |-> TRUE]
NoTime == <<>>

\* the outcome of a call: it raised, or it returned the list l
Raised == [raised |-> TRUE]
Ok(l) == [raised |-> FALSE, data |-> l]

\* SELECT * FROM option_aggregates WHERE symbol=? ORDER BY date DESC,
\* timestamp DESC LIMIT 1; a dict of the row, or None
get_latest_aggregates(aggs, symbol) ==
    LET rows == {r \in aggs : r.symbol = symbol}
    IN IF rows = {} THEN None
       ELSE CHOOSE r \in rows :
              \A q \in rows : ~StampLess(r.date, r.timestamp, q.date, q.timestamp)

\* the strike rows of the latest (date, timestamp) of the symbol; [] if none
get_latest_chain(dets, symbol) ==
    LET rows == {r \in dets : r.symbol = symbol}
    IN IF rows = {} THEN {}
       ELSE LET last == CHOOSE r \in rows :
                   \A q \in rows : ~StampLess(r.date, r.timestamp, q.date, q.timestamp)
            IN {[strike |-> r.strike, call_oi |-> r.call_oi, put_oi |-> r.put_oi,
                 call_oi_chg |-> r.call_oi_chg, put_oi_chg |-> r.put_oi_chg] :
                   r \in {q \in rows : q.date = last.date /\ q.timestamp = last.timestamp}}

(***************************************************************************)
(* Put-call ratio.                                                         *)
(***************************************************************************)
\* round(p / c, 2) in hundredths, ties to the even hundredth
Round2(p, c) ==
    LET n == (100 * p) \div c
        rem == (100 * p) % c
    IN IF 2 * rem > c THEN n + 1
       ELSE IF 2 * rem < c THEN n
       ELSE IF n % 2 = 0 THEN n ELSE n + 1

\* mutant: no default for a chain without call open interest
PutCallRatio_NoDefault(total_put_oi, total_call_oi) ==
    IF total_call_oi > 0 THEN Round2(total_put_oi, total_call_oi) ELSE 0

\* pcr = round(total_put_oi / total_call_oi, 2) if total_call_oi > 0 else 1.0
PutCallRatio(total_put_oi, total_call_oi) ==
    IF total_call_oi > 0 THEN Round2(total_put_oi, total_call_oi) ELSE DefaultPcr


(***************************************************************************)
(* Writes of the Snapshot Store (OptionDatabase).  Every write is one      *)
(* transaction: INSERT OR REPLACE statements followed by a commit; an      *)
(* exception inside the try block is printed (and rolled back), so the     *)
(* tables keep the contents they had.  fails tells that a statement of the *)
(* transaction raises.                                                     *)
(***************************************************************************)
\* the expiry the expiry-dates endpoint answers with: a day after TargetDate
ExpiryDay == TargetDate + 2

\* mutant: a plain INSERT into a table without a primary key
ReplaceAggregate_Append(aggs, row) == aggs \cup {row}

\* INSERT OR REPLACE under the primary keys of init_db
ReplaceAggregate(aggs, row) ==
    {r \in aggs : ~(r.symbol = row.symbol /\ r.date = row.date
                    /\ r.timestamp = row.timestamp)} \cup {row}

ReplaceDetails(dets, rows) ==
    {r \in dets : ~\E n \in rows : r.symbol = n.symbol /\ r.date = n.date
                                   /\ r.timestamp = n.timestamp
                                   /\ r.strike = n.strike} \cup rows

\* mutant: the except block commits what the transaction has done so far
Rollback_Commit(committed, pending) == pending

\* conn.rollback(): the statements of the open transaction are undone
Rollback(committed, pending) == committed

\* fails: the INSERT of the last strike of the batch raises (all of them
\* succeed if the batch has no strike and the aggregate's INSERT raises);
\* the statements before it have run inside the transaction
save_snapshot(aggs, dets, symbol, trading_date, timestamp, expiry, aggregates, details, fails) ==
    LET row == [symbol |-> symbol, date |-> trading_date,
                timestamp |-> timestamp, expiry |-> expiry,
                call_oi |-> aggregates.call_oi, put_oi |-> aggregates.put_oi,
                pcr |-> aggregates.pcr]
        rows(ds) == {[symbol |-> symbol, date |-> trading_date,
                      timestamp |-> timestamp, strike |-> d.strike,
                      call_oi |-> d.call_oi, put_oi |-> d.put_oi,
                      call_oi_chg |-> d.call_oi_chg,
                      put_oi_chg |-> d.put_oi_chg] : d \in ds}
        before == {d \in details : \E e \in details : d.strike < e.strike}
        pending == IF details = {} THEN [aggs |-> aggs, dets |-> dets]
                   ELSE [aggs |-> ReplaceAggregate(aggs, row),
                         dets |-> ReplaceDetails(dets, rows(before))]
    IN IF fails THEN Rollback([aggs |-> aggs, dets |-> dets], pending)
       ELSE [aggs |-> ReplaceAggregate(aggs, row),
             dets |-> ReplaceDetails(dets, rows(details))]

\* the breadth row of the latest (date, timestamp); None if the table is empty
get_latest_breadth(breadth) ==
    IF breadth = {} THEN None
    ELSE CHOOSE r \in breadth :
           \A q \in breadth : ~StampLess(r.date, r.timestamp, q.date, q.timestamp)

save_breadth(breadth, trading_date, timestamp, data, fails) ==
    IF fails THEN breadth
    ELSE {r \in breadth : ~(r.date = trading_date /\ r.timestamp = timestamp)}
         \cup {[date |-> trading_date, timestamp |-> timestamp,
                advances |-> data.advances, declines |-> data.declines,
                unchanged |-> data.unchanged, total |-> data.total]}

save_daily_stats(history, symbol, trading_date, pcr, call_oi, put_oi, fails) ==
    IF fails THEN history
    ELSE {r \in history : ~(r.symbol = symbol /\ r.date = trading_date)}
         \cup {[symbol |-> symbol, date |-> trading_date, pcr |-> pcr,
                call_oi |-> call_oi, put_oi |-> put_oi]}

(***************************************************************************)
(* Acquisition of a live option-chain snapshot (backfill_trendlyne.py).    *)
(* The state the functions read and write is threaded through them as a    *)
(* record S with the two option tables (aggs, dets) and the two module     *)
(* caches (sid, exp).  The answers of the providers to the calls of one    *)
(* fetch_live_snapshot are the record a:                                   *)
(*   avail       UPSTOX_AVAILABLE and config has an ACCESS_TOKEN           *)
(*   stock1/2    what the stock search answers to the first and to the     *)
(*               second lookup: 0 (error or no data) or a stock id         *)
(*   expiry1/2   what the expiry-dates endpoint answers: 0 (error or an    *)
(*               empty list) or the first expiry day                       *)
(*   upstox      the answer of get_put_call_option_chain                   *)
(*   trendlyne   the answer of the live-oi-data endpoint                   *)
(*   saveFails   the store raises inside the write transaction             *)
(* Only the two index symbols are asked for, the ones whose instrument key *)
(* is fixed in the code.                                                   *)
(***************************************************************************)
RECURSIVE SumSeq(_)
SumSeq(q) == IF q = << >> THEN 0 ELSE q[1] + SumSeq(Tail(q))

get_stock_id_for_symbol(S, symbol, answer) ==
    IF S.sid[symbol] # 0 THEN [val |-> S.sid[symbol], S |-> S]
    ELSE IF answer # 0
         THEN [val |-> answer, S |-> [S EXCEPT !.sid[symbol] = answer]]
         ELSE [val |-> 0, S |-> S]

backfill_from_trendlyne(S, symbol, expiry_date_str, timestamp_snapshot, answer, fails) ==
    IF answer.kind # "ok" THEN S
    ELSE LET oi_data == answer.rows
             total_call_oi == SumSeq([i \in DOMAIN oi_data |-> oi_data[i].callOi])
             total_put_oi == SumSeq([i \in DOMAIN oi_data |-> oi_data[i].putOi])
             details == {[strike |-> oi_data[i].strike, call_oi |-> oi_data[i].callOi,
                          put_oi |-> oi_data[i].putOi,
                          call_oi_chg |-> oi_data[i].callOiChange,
                          put_oi_chg |-> oi_data[i].putOiChange] : i \in DOMAIN oi_data}
             saved == save_snapshot(S.aggs, S.dets, symbol, TargetDate,
                                    timestamp_snapshot, expiry_date_str,
                                    [call_oi |-> total_call_oi, put_oi |-> total_put_oi,
                                     pcr |-> PutCallRatio(total_put_oi, total_call_oi)],
                                    details, fails)
         IN [S EXCEPT !.aggs = saved.aggs, !.dets = saved.dets]

\* returns None (here the empty chain: the caller tests truthiness only) or
\* the latest stored chain after the write
fetch_live_snapshot_upstox(S, symbol, a, clock) ==
    IF ~a.avail THEN [ret |-> {}, S |-> S]
    ELSE LET cached == S.exp[symbol]
             sid == get_stock_id_for_symbol(S, symbol, a.stock1)
             S1 == IF cached = 0 THEN sid.S ELSE S
             fetched == IF cached = 0 /\ sid.val # 0 THEN a.expiry1 ELSE 0
             expiry == IF cached # 0 THEN cached ELSE fetched
             S2 == IF fetched # 0 THEN [S1 EXCEPT !.exp[symbol] = fetched] ELSE S1
         IN IF expiry = 0 \/ a.upstox.kind # "chain" THEN [ret |-> {}, S |-> S2]
            ELSE LET chain_data == a.upstox.rows
                     total_call_oi ==
                         SumSeq([i \in DOMAIN chain_data |-> chain_data[i].c_oi])
                     total_put_oi ==
                         SumSeq([i \in DOMAIN chain_data |-> chain_data[i].p_oi])
                     details ==
                         {[strike |-> chain_data[i].strike,
                           call_oi |-> chain_data[i].c_oi,
                           put_oi |-> chain_data[i].p_oi,
                           call_oi_chg |-> chain_data[i].c_oi - chain_data[i].c_prev,
                           put_oi_chg |-> chain_data[i].p_oi - chain_data[i].p_prev] :
                            i \in DOMAIN chain_data}
                     saved == save_snapshot(S2.aggs, S2.dets, symbol, TargetDate,
                                  TimeStr(clock), expiry,
                                  [call_oi |-> total_call_oi, put_oi |-> total_put_oi,
                                   pcr |-> PutCallRatio(total_put_oi, total_call_oi)],
                                  details, a.saveFails)
                 IN IF total_call_oi = 0 /\ total_put_oi = 0
                    THEN [ret |-> {}, S |-> S2]
                    ELSE [ret |-> get_latest_chain(saved.dets, symbol),
                          S |-> [S2 EXCEPT !.aggs = saved.aggs, !.dets = saved.dets]]

fetch_live_snapshot(S, symbol, a, clock) ==
    LET up == fetch_live_snapshot_upstox(S, symbol, a, clock)
        sid == get_stock_id_for_symbol(up.S, symbol, a.stock2)
        S1 == sid.S
        cached == S1.exp[symbol]
        valid == IF cached # 0 /\ TargetDate > cached THEN 0 ELSE cached
        fetched == IF valid = 0 THEN a.expiry2 ELSE 0
        expiry == IF valid # 0 THEN valid ELSE fetched
        S2 == IF fetched # 0 THEN [S1 EXCEPT !.exp[symbol] = fetched] ELSE S1
        S3 == backfill_from_trendlyne(S2, symbol, expiry, TimeStr(clock),
                                      a.trendlyne, a.saveFails)
    IN IF up.ret # {} THEN up
       ELSE IF sid.val = 0 THEN [ret |-> {}, S |-> S1]
       ELSE IF expiry = 0 THEN [ret |-> get_latest_chain(S2.dets, symbol), S |-> S2]
       ELSE [ret |-> get_latest_chain(S3.dets, symbol), S |-> S3]

(***************************************************************************)
(* Fan-out: asyncio.gather of client.send(m) for client in self.clients,   *)
(* return_exceptions=True.  The targets are the clients set when the list  *)
(* is built; a send succeeds iff the connection is open; a failed send is  *)
(* returned as a value and raises nothing.                                 *)
(***************************************************************************)
\* a mutation of FanOut: gather without return_exceptions, which propagates
\* the first exception of a send
FanOut_Propagates(targets, c) ==
    [targets |-> targets,
     sends |-> [t \in targets |-> 1],
     delivered |-> {t \in targets : c[t] = "open"},
     raised |-> \E t \in targets : c[t] # "open"]

\* a mutation of FanOut: the message goes to every connection of the server,
\* registered in the set or not
FanOut_Everyone(targets, c) ==
    [targets |-> DOMAIN c,
     sends |-> [t \in DOMAIN c |-> 1],
     delivered |-> {t \in DOMAIN c : c[t] = "open"},
     raised |-> FALSE]

\* gather(*[client.send(message) for client in self.clients],
\* return_exceptions=True): one send for each client of the set
FanOut(targets, c) ==
    [targets |-> targets,
     sends |-> [t \in targets |-> 1],
     delivered |-> {t \in targets : c[t] = "open"},
     raised |-> FALSE]

(***************************************************************************)
(* Frozen data the replay reads: candle rows of backtest_candles and the   *)
(* option snapshots of options_data.db.                                    *)
(***************************************************************************)
CandleRows(b) ==
    LET k == ParseTime(b) - BaseMinute + 1
    IN << [symbol |-> "NIFTY", timestamp_str |-> b, open |-> 100 + k, high |-> 102 + k,
           low |-> 99 + k, close |-> 101 + k, volume |-> 0, source |-> "upstox"],
          [symbol |-> "RELIANCE", timestamp_str |-> b, open |-> 50 + k, high |-> 52 + k,
           low |-> 49 + k, close |-> 51 + k, volume |-> 10 * k, source |-> "upstox"] >>

SnapPutOi(m) == 100 + 25 * (m - BaseMinute + 1)

SnapAggregate(sym, m) ==
    [symbol |-> sym, date |-> TargetDate, timestamp |-> TimeStr(m), expiry |-> ExpiryDay,
     call_oi |-> 100, put_oi |-> SnapPutOi(m), pcr |-> PutCallRatio(SnapPutOi(m), 100)]

SnapDetails(sym, m) ==
    {[symbol |-> sym, date |-> TargetDate, timestamp |-> TimeStr(m), strike |-> 100,
      call_oi |-> 100, put_oi |-> SnapPutOi(m), call_oi_chg |-> 0,
      put_oi_chg |-> m - BaseMinute]}

\* the frozen store holds no NIFTY snapshot, one taken at any minute of the
\* window, or two taken at its first and last minute; and at most one
\* BANKNIFTY snapshot, taken at the first minute
NiftySnapTimes ==
    {{}} \cup {{m} : m \in Window} \cup {{BaseMinute, BaseMinute + NumBuckets - 1}}
BankNiftySnapTimes == {{}, {BaseMinute}}

\* the candle table has rows for every minute of the window, or for every
\* minute but its second
CandleTimeSets == {Window, Window \ {BaseMinute + 1}}

(***************************************************************************)
(* BacktestReplayEngine.                                                   *)
(***************************************************************************)
\* the rows of backtest_candles for the minutes S of the target date
CandleTable(S) ==
    {[symbol |-> r.symbol, date |-> TargetDate, timestamp |-> r.timestamp_str,
      open |-> r.open, high |-> r.high, low |-> r.low, close |-> r.close,
      volume |-> r.volume, source |-> r.source] :
        r \in UNION {{CandleRows(TimeStr(m))[i] : i \in DOMAIN CandleRows(TimeStr(m))} :
                        m \in S}}

\* _load_candle_data: rows of the target date grouped by timestamp
load_candle_data(S) == [b \in {TimeStr(m) : m \in S} |-> CandleRows(b)]

\* _get_option_chain(symbol, current_time_str): current_time_str is not used
get_option_chain(symbol, current_time_str) ==
    get_latest_chain(option_chain_details, symbol)

\* _get_pcr(symbol)
get_pcr(symbol) ==
    LET agg == get_latest_aggregates(option_aggregates, symbol)
    IN IF agg # None THEN agg.pcr ELSE DefaultPcr

ReplayCandlePacket(c) ==
    ("symbol" :> c.symbol) @@
    ("timestamp" :> EpochMs(TargetDate, c.timestamp_str)) @@
    ("1m" :> [open |-> c.open, high |-> c.high, low |-> c.low, close |-> c.close,
              volume |-> c.volume, vwap |-> c.close]) @@
    ("5m" :> [open |-> c.open, high |-> c.high, low |-> c.low, close |-> c.close,
              volume |-> c.volume]) @@
    ("pcr" :> (IF c.symbol \in {"NIFTY", "BANKNIFTY"} THEN get_pcr(c.symbol)
               ELSE DefaultPcr))

ReplayCandleMsg(timestamp_str) ==
    [type |-> "candle_update",
     data |-> [i \in DOMAIN candle_data[timestamp_str] |->
                 ReplayCandlePacket(candle_data[timestamp_str][i])]]

ReplayOptionChainMsg(symbol, chain) ==
    [type |-> "option_chain", symbol |-> symbol, data |-> chain]

ReplayPcrMsg(symbol, p) ==
    [type |-> "pcr_update", symbol |-> symbol, pcr |-> p]

\* build-and-send of one message: if self.clients: await asyncio.gather
Emit(m) ==
    LET f == FanOut(clients, conn)
    IN /\ log' = Append(log, [bucket |-> current_time, msg |-> m])
       /\ lastTargets' = f.targets
       /\ lastDelivered' = f.delivered

NoEmit == UNCHANGED <<log, fanVars>>

(***************************************************************************)
(* Symbol Resolver (SymbolMaster).  A string is the sequence of its        *)
(* characters, so that str.upper() is a conversion; a dict is a function   *)
(* whose domain is the set of its keys; None is the empty string.          *)
(***************************************************************************)
LowerCase == <<"a", "b", "c", "d", "e", "f", "g", "h", "i", "j", "k", "l", "m", "n", "o", "p", "q", "r", "s", "t", "u", "v", "w", "x", "y", "z">>
UpperCase == <<"A", "B", "C", "D", "E", "F", "G", "H", "I", "J", "K", "L", "M", "N", "O", "P", "Q", "R", "S", "T", "U", "V", "W", "X", "Y", "Z">>

UpperChar(c) ==
    IF \E i \in DOMAIN LowerCase : LowerCase[i] = c
    THEN UpperCase[CHOOSE i \in DOMAIN LowerCase : LowerCase[i] = c]
    ELSE c

\* mutant: the string as it is given
Upper_AsGiven(str) == str

\* str.upper()
Upper(str) == [i \in DOMAIN str |-> UpperChar(str[i])]

NotFound == << >>
EmptyDict == [k \in {} |-> NotFound]
Put(d, k, v) == [x \in DOMAIN d \cup {k} |-> IF x = k THEN v ELSE d[x]]

\* the strings of the code and of the instrument catalog
NIFTY == <<"N", "I", "F", "T", "Y">>
BANKNIFTY == <<"B", "A", "N", "K", "N", "I", "F", "T", "Y">>
Nifty50 == <<"N", "i", "f", "t", "y", " ", "5", "0">>
NiftyBank == <<"N", "i", "f", "t", "y", " ", "B", "a", "n", "k">>
ITC == <<"I", "T", "C">>
IndexKey(nm) == <<"N", "S", "E", "_", "I", "N", "D", "E", "X", "|">> \o nm
EquityKey(isin) == <<"N", "S", "E", "_", "E", "Q", "|">> \o isin
FutureKey(isin) == <<"N", "S", "E", "_", "F", "O", "|">> \o isin

CatalogRow(seg, sym, nm, key) ==
    [segment |-> seg, trading_symbol |-> sym, name |-> nm, instrument_key |-> key]

\* a catalog with one equity, the two indices and a derivative
CatalogPlain ==
    << CatalogRow("NSE_EQ", ITC, <<"I", "T", "C", " ", "L", "T", "D">>, EquityKey(<<"1">>)),
       CatalogRow("NSE_INDEX", Nifty50, Nifty50, IndexKey(Nifty50)),
       CatalogRow("NSE_FO", ITC \o <<" ", "F", "U", "T">>, ITC, FutureKey(<<"7">>)),
       CatalogRow("NSE_INDEX", NiftyBank, NiftyBank, IndexKey(NiftyBank)) >>

\* a catalog in which two equity rows have the same upper-cased trading symbol
CatalogShared ==
    << CatalogRow("NSE_EQ", ITC, <<"I", "T", "C", " ", "L", "T", "D">>, EquityKey(<<"1">>)),
       CatalogRow("NSE_EQ", <<"I", "t", "c">>, <<"I", "T", "C", " ", "B", "E">>, EquityKey(<<"2">>)) >>

\* the value pandas gives a cell whose JSON value is null: not a string
NaN == <<"nan">>

\* a catalog whose second equity row has no trading symbol
CatalogBroken ==
    << CatalogRow("NSE_EQ", ITC, <<"I", "T", "C", " ", "L", "T", "D">>, EquityKey(<<"1">>)),
       CatalogRow("NSE_EQ", NaN, <<"S", "B", "I">>, EquityKey(<<"3">>)),
       CatalogRow("NSE_INDEX", NiftyBank, NiftyBank, IndexKey(NiftyBank)) >>

\* the bytes of a response or of the cache file: a catalog that parses, bytes
\* that do not parse; NoFile: the cache file does not exist
NoFile == [kind |-> "none", rows |-> << >>]
Unparseable == [kind |-> "garbage", rows |-> << >>]
Contents ==
    {Unparseable, [kind |-> "catalog", rows |-> CatalogPlain],
     [kind |-> "catalog", rows |-> CatalogShared],
     [kind |-> "catalog", rows |-> CatalogBroken]}

\* requests.get / raise_for_status: an exception, or a body
DownloadAnswers ==
    {[ok |-> FALSE, content |-> Unparseable]} \cup {[ok |-> TRUE, content |-> c] : c \in Contents}

\* the state of the resolver and of its cache file
ResolverState ==
    [mappings |-> mappings, reverse_mappings |-> reverse_mappings,
     initialized |-> initialized, cache_file |-> cache_file]

\* the for-loop over df_filtered from row i on; row['trading_symbol'].upper()
\* raises on a cell that is not a string, with the rows before it filled in
RECURSIVE FillRows(_, _, _, _)
FillRows(rows, i, m, r) ==
    IF i > Len(rows) THEN [mappings |-> m, reverse_mappings |-> r, raised |-> FALSE]
    ELSE IF rows[i].segment \in {"NSE_EQ", "NSE_INDEX"} /\ rows[i].trading_symbol = NaN
    THEN [mappings |-> m, reverse_mappings |-> r, raised |-> TRUE]
    ELSE LET row == rows[i]
             nm == Upper(row.trading_symbol)
             key == row.instrument_key
             m1 == Put(m, nm, key)
             m2 == IF row.segment # "NSE_INDEX" THEN m1
                   ELSE IF row.name = Nifty50 \/ row.trading_symbol = Nifty50
                   THEN Put(m1, NIFTY, key)
                   ELSE IF row.name = NiftyBank \/ row.trading_symbol = NiftyBank
                   THEN Put(m1, BANKNIFTY, key)
                   ELSE m1
         IN IF row.segment \in {"NSE_EQ", "NSE_INDEX"}
            THEN FillRows(rows, i + 1, m2, Put(r, key, nm))
            ELSE FillRows(rows, i + 1, m, r)

\* steps 1 and 2 of initialize: the download, which writes the cache file,
\* or else the read of the cache file, or else the exception of the download
Acquire(cache, a) ==
    IF a.ok
    THEN [raised |-> FALSE, content |-> a.content, cache_file |-> a.content,
          cacheRead |-> FALSE]
    ELSE IF cache # NoFile
    THEN [raised |-> FALSE, content |-> cache, cache_file |-> cache, cacheRead |-> TRUE]
    ELSE [raised |-> TRUE, content |-> NoFile, cache_file |-> cache, cacheRead |-> FALSE]

\* step 3 of initialize: the mappings are filled and the flag is set, or the
\* exception of the parser is printed
Parse(m, r, init, content) ==
    IF content.kind = "catalog"
    THEN LET f == FillRows(content.rows, 1, m, r)
         IN [mappings |-> f.mappings, reverse_mappings |-> f.reverse_mappings,
             initialized |-> IF f.raised THEN init ELSE TRUE]
    ELSE [mappings |-> m, reverse_mappings |-> r, initialized |-> init]

\* initialize past its guard
Load(S, a) ==
    LET got == Acquire(S.cache_file, a)
        p == Parse(S.mappings, S.reverse_mappings, S.initialized, got.content)
    IN IF got.raised
       THEN [S |-> S, raised |-> TRUE, downloaded |-> TRUE, cacheRead |-> FALSE]
       ELSE [S |-> [mappings |-> p.mappings, reverse_mappings |-> p.reverse_mappings,
                    initialized |-> p.initialized, cache_file |-> got.cache_file],
             raised |-> FALSE, downloaded |-> TRUE, cacheRead |-> got.cacheRead]

\* mutant: no guard on the flag
initialize_Always(S, a) == Load(S, a)

initialize(S, a) ==
    IF S.initialized
    THEN [S |-> S, raised |-> FALSE, downloaded |-> FALSE, cacheRead |-> FALSE]
    ELSE Load(S, a)

get_upstox_key(S, symbol, a) ==
    LET i == initialize(S, a)
    IN [S |-> i.S, raised |-> i.raised, downloaded |-> i.downloaded,
        cacheRead |-> i.cacheRead,
        value |-> IF i.raised THEN NotFound
                  ELSE IF Upper(symbol) \in DOMAIN i.S.mappings
                  THEN i.S.mappings[Upper(symbol)]
                  ELSE NotFound]

get_ticker_from_key(S, key, a) ==
    LET i == initialize(S, a)
    IN [S |-> i.S, raised |-> i.raised, downloaded |-> i.downloaded,
        cacheRead |-> i.cacheRead,
        value |-> IF i.raised THEN NotFound
                  ELSE IF key \in DOMAIN i.S.reverse_mappings
                  THEN i.S.reverse_mappings[key]
                  ELSE key]

\* the threads of a process that use the resolver: the event loop and two
\* workers of its default executor
Callers == {"loop", "worker1", "worker2"}

\* the class attributes of a freshly imported SymbolMaster; no cache file
ResolverFresh ==
    /\ mappings = EmptyDict
    /\ reverse_mappings = EmptyDict
    /\ initialized = FALSE
    /\ cache_file = NoFile
    /\ im_pc = [c \in Callers |-> "idle"]
    /\ im_content = [c \in Callers |-> NoFile]

\* TVCandleBridge.__init__: self.pcr_data; no fetch_candles call has been made
LiveIdleWith(db) ==
    /\ TrendlyneDB = db
    /\ ResolverFresh
    /\ pcr_data = [s \in {"NIFTY", "BANKNIFTY"} |-> DefaultPcr]
    /\ fc_pc = "idle"
    /\ fc_in = None
    /\ fc_result = Ok(<< >>)
    /\ tk_pc = "idle"
    /\ tk_in = None
    /\ tk_prev = None
    /\ tk_result = None
    /\ sent = None
    /\ STOCK_ID_CACHE = [s \in {"NIFTY", "BANKNIFTY"} |-> 0]
    /\ EXPIRY_CACHE = [s \in {"NIFTY", "BANKNIFTY"} |-> 0]
    /\ now = BaseMinute
    /\ task = [t \in {"candles", "pcr", "option_chain", "breadth"} |-> "running"]
    /\ oc_pc = "sleep"
    /\ oc_idx = 1
    /\ oc_chain = {}

LiveIdle == LiveIdleWith(TRUE)

ReplayInitOver(cs, candleSets, niftySets, bankSets) ==
    /\ clients = {}
    /\ conn = [c \in cs |-> "none"]
    /\ everConnected = FALSE
    /\ pc = "LOADED"
    /\ idx = 1
    /\ start_time \in {TimeStr(m) : m \in Window}
    /\ end_time \in {TimeStr(m) : m \in Window}
    /\ speed \in Speeds
    /\ \E S \in candleSets :
          /\ candle_data = load_candle_data(S)
          /\ backtest_candles = CandleTable(S)
    /\ current_dt = 0
    /\ current_time = NoTime
    /\ \E SN \in niftySets, SB \in bankSets :
          /\ option_aggregates = {SnapAggregate("NIFTY", m) : m \in SN}
                                   \cup {SnapAggregate("BANKNIFTY", m) : m \in SB}
          /\ option_chain_details = UNION ({SnapDetails("NIFTY", m) : m \in SN}
                                   \cup {SnapDetails("BANKNIFTY", m) : m \in SB})
    /\ log = <<>>
    /\ lastTargets = {}
    /\ lastDelivered = {}
    /\ market_breadth = {}
    /\ pcr_history = {}
    /\ sleeps = << >>
    /\ LiveIdle

\* __init__: one subscriber may come and go; any frozen data set
ReplayInit == ReplayInitOver(OneClient, CandleTimeSets, NiftySnapTimes, BankNiftySnapTimes)

\* handle_client, up to the first await: register_client
register_client(c) ==
    /\ conn[c] = "none"
    /\ conn' = [conn EXCEPT ![c] = "open"]
    /\ clients' = clients \cup {c}
    /\ everConnected' = TRUE
    /\ UNCHANGED <<pc, idx, paramVars, current_dt, current_time, storeVars, liveVars, log,
                   fanVars, sleeps>>

\* the peer goes away; the handler coroutine has not been resumed yet
ConnectionLost(c) ==
    /\ conn[c] = "open"
    /\ conn' = [conn EXCEPT ![c] = "closed"]
    /\ UNCHANGED <<clients, everConnected, pc, idx, paramVars, current_dt,
                   current_time, storeVars, liveVars, log,
                   fanVars, sleeps>>

\* handle_client's finally: unregister_client
unregister_client(c) ==
    /\ conn[c] = "closed"
    /\ conn' = [conn EXCEPT ![c] = "none"]
    /\ clients' = clients \ {c}
    /\ UNCHANGED <<everConnected, pc, idx, paramVars, current_dt, current_time,
                   storeVars, liveVars, log,
                   fanVars, sleeps>>

\* start_server: async with websockets.serve(...)
start_server ==
    /\ pc = "LOADED"
    /\ pc' = "WAITING"
    /\ UNCHANGED <<clients, conn, everConnected, idx, paramVars, current_dt,
                   current_time, storeVars, liveVars, log,
                   fanVars, sleeps>>

\* mutant: start_server without the wait for a first client
WaitForClient_NoWait ==
    /\ pc = "WAITING"
    /\ pc' = "STARTING"
    /\ UNCHANGED <<clients, conn, everConnected, idx, paramVars, current_dt,
                   current_time, storeVars, liveVars, log,
                   fanVars, sleeps>>

\* while not self.clients: await asyncio.sleep(1)
WaitForClient ==
    /\ pc = "WAITING"
    /\ clients # {}
    /\ pc' = "STARTING"
    /\ UNCHANGED <<clients, conn, everConnected, idx, paramVars, current_dt,
                   current_time, storeVars, liveVars, log,
                   fanVars, sleeps>>

\* await asyncio.sleep(2); replay_loop up to its while
EnterReplayLoop ==
    /\ pc = "STARTING"
    /\ current_dt' = ParseTime(start_time)
    /\ pc' = "LOOP"
    /\ UNCHANGED <<clients, conn, everConnected, idx, paramVars, current_time,
                   storeVars, liveVars, log,
                   fanVars, sleeps>>

\* mutant: while current_dt < end_dt
LoopHead_Exclusive ==
    /\ pc = "LOOP"
    /\ IF current_dt < ParseTime(end_time)
       THEN /\ current_time' = TimeStr(current_dt)
            /\ pc' = "CANDLES"
       ELSE /\ pc' = "COMPLETED"
            /\ UNCHANGED current_time
    /\ UNCHANGED <<clients, conn, everConnected, idx, paramVars, current_dt,
                   storeVars, liveVars, log,
                   fanVars, sleeps>>

\* while current_dt <= end_dt: self.current_time = current_dt.strftime("%H:%M")
LoopHead ==
    /\ pc = "LOOP"
    /\ IF current_dt <= ParseTime(end_time)
       THEN /\ current_time' = TimeStr(current_dt)
            /\ pc' = "CANDLES"
       ELSE /\ pc' = "COMPLETED"
            /\ UNCHANGED current_time
    /\ UNCHANGED <<clients, conn, everConnected, idx, paramVars, current_dt,
                   storeVars, liveVars, log,
                   fanVars, sleeps>>

\* mutant: the replay holds the bucket while nobody is subscribed
broadcast_candles_WaitsForClient ==
    /\ pc = "CANDLES"
    /\ clients # {}
    /\ IF current_time \notin DOMAIN candle_data
       THEN NoEmit
       ELSE Emit(ReplayCandleMsg(current_time))
    /\ pc' = "CHAIN"
    /\ idx' = 1
    /\ UNCHANGED <<clients, conn, everConnected, paramVars, current_dt,
                   current_time, storeVars, liveVars, sleeps>>

\* await self.broadcast_candles(self.current_time)
broadcast_candles ==
    /\ pc = "CANDLES"
    /\ IF current_time \notin DOMAIN candle_data
       THEN NoEmit
       ELSE Emit(ReplayCandleMsg(current_time))
    /\ pc' = "CHAIN"
    /\ idx' = 1
    /\ UNCHANGED <<clients, conn, everConnected, paramVars, current_dt,
                   current_time, storeVars, liveVars, sleeps>>

\* mutant: broadcast_option_chain without its "if chain"
broadcast_option_chain_Always ==
    /\ pc = "CHAIN"
    /\ LET symbol == IndexSymbols[idx]
       IN Emit(ReplayOptionChainMsg(symbol, get_option_chain(symbol, current_time)))
    /\ IF idx < Len(IndexSymbols)
       THEN idx' = idx + 1 /\ pc' = "CHAIN"
       ELSE idx' = 1 /\ pc' = "PCR"
    /\ UNCHANGED <<clients, conn, everConnected, paramVars, current_dt,
                   current_time, storeVars, liveVars, sleeps>>

\* one iteration of broadcast_option_chain's loop over NIFTY, BANKNIFTY
broadcast_option_chain ==
    /\ pc = "CHAIN"
    /\ LET symbol == IndexSymbols[idx]
           chain == get_option_chain(symbol, current_time)
       IN IF chain # {} THEN Emit(ReplayOptionChainMsg(symbol, chain)) ELSE NoEmit
    /\ IF idx < Len(IndexSymbols)
       THEN idx' = idx + 1 /\ pc' = "CHAIN"
       ELSE idx' = 1 /\ pc' = "PCR"
    /\ UNCHANGED <<clients, conn, everConnected, paramVars, current_dt,
                   current_time, storeVars, liveVars, sleeps>>

\* one iteration of broadcast_pcr's loop over NIFTY, BANKNIFTY
broadcast_pcr ==
    /\ pc = "PCR"
    /\ LET symbol == IndexSymbols[idx]
       IN Emit(ReplayPcrMsg(symbol, get_pcr(symbol)))
    /\ IF idx < Len(IndexSymbols)
       THEN idx' = idx + 1 /\ pc' = "PCR"
       ELSE idx' = 1 /\ pc' = "ADVANCE"
    /\ UNCHANGED <<clients, conn, everConnected, paramVars, current_dt,
                   current_time, storeVars, liveVars, sleeps>>

\* mutant: the sleep is taken whatever the speed
Advance_AlwaysSleep ==
    /\ pc = "ADVANCE"
    /\ current_dt' = current_dt + 1
    /\ pc' = "SLEEP"
    /\ UNCHANGED <<clients, conn, everConnected, idx, paramVars, current_time,
                   storeVars, liveVars, log,
                   fanVars, sleeps>>

\* current_dt += timedelta(minutes=1); if self.speed < 999: (sleep follows)
Advance ==
    /\ pc = "ADVANCE"
    /\ current_dt' = current_dt + 1
    /\ pc' = IF speed < InstantSpeed THEN "SLEEP" ELSE "LOOP"
    /\ UNCHANGED <<clients, conn, everConnected, idx, paramVars, current_time,
                   storeVars, liveVars, log,
                   fanVars, sleeps>>

\* 60 / self.speed seconds, in milliseconds
SleepMs(sp) == 60000 \div sp

\* mutant: the sleep between two buckets ends only while somebody is subscribed
Sleep_WhileSubscribed ==
    /\ pc = "SLEEP"
    /\ clients # {}
    /\ sleeps' = Append(sleeps, [after |-> current_time, ms |-> SleepMs(speed)])
    /\ pc' = "LOOP"
    /\ UNCHANGED <<clients, conn, everConnected, idx, paramVars, current_dt,
                   current_time, storeVars, liveVars, log, fanVars>>

\* await asyncio.sleep(60 / self.speed)
Sleep ==
    /\ pc = "SLEEP"
    /\ sleeps' = Append(sleeps, [after |-> current_time, ms |-> SleepMs(speed)])
    /\ pc' = "LOOP"
    /\ UNCHANGED <<clients, conn, everConnected, idx, paramVars, current_dt,
                   current_time, storeVars, liveVars, log, fanVars>>

ReplayNext ==
    \/ \E c \in DOMAIN conn : register_client(c)
    \/ \E c \in DOMAIN conn : ConnectionLost(c)
    \/ \E c \in DOMAIN conn : unregister_client(c)
    \/ start_server
    \/ WaitForClient
    \/ EnterReplayLoop
    \/ LoopHead
    \/ broadcast_candles
    \/ broadcast_option_chain
    \/ broadcast_pcr
    \/ Advance
    \/ Sleep

SpecReplay == ReplayInit /\ [][ReplayNext]_vars

\* the coroutine start_server / replay_loop: the event loop resumes it after
\* each of its awaits (the sleeps end, gather returns whatever the sends do).
\* Nothing is assumed of the subscribers.
EngineStep ==
    \/ start_server
    \/ WaitForClient
    \/ EnterReplayLoop
    \/ LoopHead
    \/ broadcast_candles
    \/ broadcast_option_chain
    \/ broadcast_pcr
    \/ Advance
    \/ Sleep

SpecReplayFair == ReplayInit /\ [][ReplayNext]_vars /\ WF_vars(EngineStep)

(***************************************************************************)
(* TVCandleBridge.fetch_candles: the tiered candle fetch.                  *)
(*                                                                         *)
(* A call that raises has the value Raised; one that returns the list l    *)
(* has the value Ok(l).  What the providers answer is the input of a call: *)
(*   avail    UPSTOX_AVAILABLE and config.ACCESS_TOKEN                     *)
(*   setup    "ok" or "raise": building the Upstox API client              *)
(*   upstox   per symbol, of kind "keyraise" (get_upstox_key raises),      *)
(*            "nokey", "raise" (the API call raises), "nodata", or         *)
(*            "candles" with raw candles [ts, open, high, low, close, vol] *)
(*   tv       the public scanner, of kind "raise", "short" (a result       *)
(*            without a table) or "rows"                                   *)
(*   yahooAvail, yahoo   per symbol, of kind "raise", "empty" or "row"     *)
(***************************************************************************)
Answer(k) == [kind |-> k]

FetchSymbols == <<"RELIANCE", "NIFTY">>     \* self.symbols

RawCandle(ts, p, v) == [ts |-> ts, open |-> p, high |-> p, low |-> p, close |-> p, volume |-> v]

ZeroCandles == [kind |-> "candles", candles |-> << RawCandle(2, 0, 0) >>]
GoodCandles == [kind |-> "candles", candles |-> << RawCandle(1, 90, 5), RawCandle(2, 100, 7) >>]
UpstoxAnswers ==
    {Answer("keyraise"), Answer("nokey"), Answer("raise"), Answer("nodata"),
     ZeroCandles, GoodCandles}

TvRow(sym, p, v) ==
    [name |-> <<"NSE", sym>>, open1 |-> p, high1 |-> p, low1 |-> p, close1 |-> p,
     volume1 |-> v, open5 |-> p, high5 |-> p, low5 |-> p, close5 |-> p, volume5 |-> v,
     vwap1 |-> p]
TvAnswers ==
    {Answer("raise"), Answer("short"),
     [kind |-> "rows", rows |-> << >>],
     [kind |-> "rows", rows |-> << TvRow("RELIANCE", 0, 0), TvRow("NIFTY", 0, 0) >>],
     [kind |-> "rows", rows |-> << TvRow("RELIANCE", 200, 9), TvRow("NIFTY", 201, 0) >>]}

YahooRow(p, v) == [Open |-> p, High |-> p, Low |-> p, Close |-> p, Volume |-> v]
YahooAnswers == {Answer("raise"), Answer("empty"), [kind |-> "row", row |-> YahooRow(300, 3)]}

\* c_data / candle_data: the candle packet every tier builds
CandlePacket(sym, m1, m5, pcrs) ==
    ("symbol" :> sym) @@ ("timestamp" :> 0) @@ ("1m" :> m1) @@ ("5m" :> m5) @@
    ("pcr" :> (IF sym \in DOMAIN pcrs THEN pcrs[sym] ELSE DefaultPcr))

\* sorted(candles, key=lambda x: x[0], reverse=True)[0]
LastCandle(candles) ==
    candles[CHOOSE i \in DOMAIN candles : \A j \in DOMAIN candles : candles[j].ts <= candles[i].ts]

UpstoxPacket(sym, candles, pcrs) ==
    LET c == LastCandle(candles)
    IN CandlePacket(sym,
          [open |-> c.open, high |-> c.high, low |-> c.low, close |-> c.close,
           volume |-> c.volume, vwap |-> c.close],
          [open |-> c.open, high |-> c.high, low |-> c.low, close |-> c.close,
           volume |-> c.volume],
          pcrs)

\* the for-loop of fetch_candles_upstox_primary, from symbol i on
RECURSIVE UpstoxLoop(_, _, _, _)
UpstoxLoop(answers, i, acc, pcrs) ==
    IF i > Len(FetchSymbols) THEN Ok(acc)
    ELSE LET a == answers[i]
         IN IF a.kind = "keyraise" THEN Raised
            ELSE IF a.kind \in {"nokey", "raise", "nodata"}
                 THEN UpstoxLoop(answers, i + 1, acc, pcrs)
            ELSE UpstoxLoop(answers, i + 1,
                            Append(acc, UpstoxPacket(FetchSymbols[i], a.candles, pcrs)), pcrs)

\* mutant: the outer except returns the candles gathered so far
fetch_candles_upstox_primary_Partial(in, pcrs) ==
    IF ~in.avail THEN Ok(<< >>)
    ELSE IF in.setup = "raise" THEN Ok(<< >>)
    ELSE LET n == CHOOSE k \in 0 .. Len(FetchSymbols) :
                    /\ \A j \in 1 .. k : in.upstox[j].kind # "keyraise"
                    /\ (k < Len(FetchSymbols) => in.upstox[k + 1].kind = "keyraise")
         IN UpstoxLoop(SubSeq(in.upstox, 1, n)
                          \o [j \in 1 .. (Len(FetchSymbols) - n) |-> Answer("nokey")],
                       1, << >>, pcrs)

\* fetch_candles_upstox_primary
fetch_candles_upstox_primary(in, pcrs) ==
    IF ~in.avail THEN Ok(<< >>)
    ELSE LET body == IF in.setup = "raise" THEN Raised
                     ELSE UpstoxLoop(in.upstox, 1, << >>, pcrs)
         IN IF body.raised THEN Ok(<< >>) ELSE body

\* row['name'].split(':')[-1]
TvSymbol(name) == name[Len(name)]

\* _fetch_candles_logic(use_cookies): with use_cookies the argument
\* "cookies if use_cookies else None" reads a name the module never binds
fetch_candles_logic(use_cookies, answer, pcrs) ==
    IF use_cookies THEN Raised
    ELSE IF answer.kind = "raise" THEN Raised
    ELSE IF answer.kind = "short" THEN Ok(<< >>)
    ELSE Ok([i \in DOMAIN answer.rows |->
            LET row == answer.rows[i]
            IN CandlePacket(TvSymbol(row.name),
                 [open |-> row.open1, high |-> row.high1, low |-> row.low1,
                  close |-> row.close1, volume |-> row.volume1, vwap |-> row.vwap1],
                 [open |-> row.open5, high |-> row.high5, low |-> row.low5,
                  close |-> row.close5, volume |-> row.volume5],
                 pcrs)])

\* the for-loop of _fetch_candles_yahoo, from symbol i on
RECURSIVE YahooLoop(_, _, _, _)
YahooLoop(answers, i, acc, pcrs) ==
    IF i > Len(FetchSymbols) THEN Ok(acc)
    ELSE LET a == answers[i]
         IN IF a.kind \in {"raise", "empty"} THEN YahooLoop(answers, i + 1, acc, pcrs)
            ELSE YahooLoop(answers, i + 1,
                   Append(acc, CandlePacket(FetchSymbols[i],
                        [open |-> a.row.Open, high |-> a.row.High, low |-> a.row.Low,
                         close |-> a.row.Close, volume |-> a.row.Volume, vwap |-> a.row.Close],
                        [open |-> a.row.Open, high |-> a.row.High, low |-> a.row.Low,
                         close |-> a.row.Close, volume |-> a.row.Volume],
                        pcrs)), pcrs)

\* _fetch_candles_yahoo
fetch_candles_yahoo(in, pcrs) ==
    IF ~in.yahooAvail THEN Ok(<< >>) ELSE YahooLoop(in.yahoo, 1, << >>, pcrs)

\* mutant: the public scanner call stands outside a try block
FallbackTiers_Propagates(in, pcrs) ==
    LET premium == fetch_candles_logic(TRUE, in.tv, pcrs)
    IN IF ~premium.raised THEN premium
       ELSE fetch_candles_logic(FALSE, in.tv, pcrs)

\* fetch_candles from "FALLBACK LEVEL 1" on
FallbackTiers(in, pcrs) ==
    LET premium == fetch_candles_logic(TRUE, in.tv, pcrs)
    IN IF ~premium.raised THEN premium
       ELSE LET public == fetch_candles_logic(FALSE, in.tv, pcrs)
            IN IF ~public.raised THEN public
               ELSE LET yahoo == fetch_candles_yahoo(in, pcrs)
                    IN IF ~yahoo.raised THEN yahoo ELSE Ok(<< >>)

\* fetch_candles
fetch_candles(in, pcrs) ==
    LET primary == IF in.avail THEN fetch_candles_upstox_primary(in, pcrs) ELSE Ok(<< >>)
    IN IF ~primary.raised /\ primary.data # << >> THEN primary
       ELSE FallbackTiers(in, pcrs)

FetchInputs ==
    [avail : BOOLEAN, setup : {"ok", "raise"},
     upstox : [1 .. Len(FetchSymbols) -> UpstoxAnswers],
     tv : TvAnswers,
     yahooAvail : BOOLEAN,
     yahoo : [1 .. Len(FetchSymbols) -> YahooAnswers]]

\* one call of fetch_candles, against any answers of the providers
CallFetchCandles ==
    /\ fc_pc = "idle"
    /\ \E in \in FetchInputs :
          /\ fc_in' = in
          /\ fc_result' = fetch_candles(in, pcr_data)
    /\ fc_pc' = "done"
    /\ UNCHANGED <<clients, conn, replayVars, storeVars, fanVars, pcr_data, sent,
                   cacheVars, now, taskVars, resolverVars, tickVars>>

\* the caller drops the result
ReturnFetchCandles ==
    /\ fc_pc = "done"
    /\ fc_pc' = "idle"
    /\ fc_in' = None
    /\ fc_result' = Ok(<< >>)
    /\ UNCHANGED <<clients, conn, replayVars, storeVars, fanVars, pcr_data, sent,
                   cacheVars, now, taskVars, resolverVars, tickVars>>

\* no replay engine runs and nobody is connected
EngineIdle ==
    /\ clients = {}
    /\ conn = [c \in Clients |-> "none"]
    /\ everConnected = FALSE
    /\ pc = "LOADED"
    /\ idx = 1
    /\ start_time = TimeStr(BaseMinute)
    /\ end_time = TimeStr(BaseMinute)
    /\ speed = InstantSpeed
    /\ candle_data = load_candle_data({})
    /\ current_dt = 0
    /\ current_time = NoTime
    /\ log = << >>
    /\ lastTargets = {}
    /\ lastDelivered = {}
    /\ sleeps = << >>

\* the store as _init_db creates it
EmptyStore ==
    /\ option_aggregates = {}
    /\ option_chain_details = {}
    /\ market_breadth = {}
    /\ pcr_history = {}
    /\ backtest_candles = {}

ReplayIdle == EngineIdle /\ EmptyStore

FetchInit == ReplayIdle /\ LiveIdle

FetchNext == CallFetchCandles \/ ReturnFetchCandles

SpecFetch == FetchInit /\ [][FetchNext]_vars

(***************************************************************************)
(* Messages of the live bridge (TVCandleBridge).                           *)
(***************************************************************************)
\* broadcast_option_chain: full_sym and msg
LiveOptionChainMsg(sym, now_ms, chain) ==
    [type |-> "option_chain",
     symbol |-> IF sym = "NIFTY" THEN "NSE_INDEX|Nifty 50" ELSE "NSE_INDEX|Nifty Bank",
     timestamp |-> now_ms,
     data |-> chain]

\* broadcast: json.dumps({"type": "candle_update", "data": data})
LiveCandleMsg(data) == [type |-> "candle_update", data |-> data]

LiveBreadthMsg(now_ms, advances, declines, unchanged, total, sectors) ==
    [type |-> "market_breadth", timestamp |-> now_ms,
     data |-> [advances |-> advances, declines |-> declines, unchanged |-> unchanged,
               total |-> total, sectors |-> sectors]]

(***************************************************************************)
(* The live bridge (TVCandleBridge): the connection handler and the four   *)
(* periodic tasks that main_loop gathers.  A task runs from one await that *)
(* suspends it to the next in one step: fetch_candles, the NSE client and  *)
(* the store are called synchronously, so a candle, breadth or PCR tick is *)
(* one action; the option-chain task is suspended in run_in_executor       *)
(* between the acquisition and the send of each symbol.  main_loop gathers *)
(* the tasks without return_exceptions, so an exception that leaves one of *)
(* them ends the bridge.                                                   *)
(***************************************************************************)
Tasks == {"candles", "pcr", "option_chain", "breadth"}
Alive == \A t \in Tasks : task[t] = "running"
NowMs == EpochMs(TargetDate, TimeStr(now))

\* asyncio.gather of the sends of message m by task t; catches tells whether
\* the gather stands inside a try block of the task
LiveEmit(t, m, catches) ==
    LET f == FanOut(clients, conn)
    IN /\ sent' = [task |-> t, msg |-> m, targets |-> f.targets, sends |-> f.sends,
                    delivered |-> f.delivered,
                    failed |-> {c \in f.targets : conn[c] # "open"}]
       /\ task' = IF f.raised /\ ~catches THEN [task EXCEPT ![t] = "crashed"] ELSE task

NoLiveEmit == sent' = None /\ UNCHANGED task

\* mutant: a connecting client resets the cached ratios
handler_ResetsRatios(c) ==
    /\ Alive
    /\ conn[c] = "none"
    /\ conn' = [conn EXCEPT ![c] = "open"]
    /\ clients' = clients \cup {c}
    /\ sent' = None
    /\ pcr_data' = [s \in DOMAIN pcr_data |-> DefaultPcr]
    /\ UNCHANGED <<replayVars, storeVars, fanVars, fetchVars, cacheVars, now,
                   taskVars, resolverVars>>

handler(c) ==
    /\ Alive
    /\ conn[c] = "none"
    /\ conn' = [conn EXCEPT ![c] = "open"]
    /\ clients' = clients \cup {c}
    /\ sent' = None
    /\ UNCHANGED <<replayVars, storeVars, fanVars, pcr_data, fetchVars, cacheVars, now,
                   taskVars, resolverVars>>

\* the peer goes away; the handler coroutine has not been resumed yet
ConnectionClosed(c) ==
    /\ conn[c] = "open"
    /\ conn' = [conn EXCEPT ![c] = "closed"]
    /\ sent' = None
    /\ UNCHANGED <<clients, replayVars, storeVars, fanVars, pcr_data, fetchVars,
                   cacheVars, now, taskVars, resolverVars>>

\* a mutation of handler_finally: the handler ends without its finally block
handler_finally_Keep(c) ==
    /\ conn[c] = "closed"
    /\ conn' = [conn EXCEPT ![c] = "none"]
    /\ sent' = None
    /\ UNCHANGED <<clients, replayVars, storeVars, fanVars, pcr_data, fetchVars,
                   cacheVars, now, taskVars, resolverVars>>

\* the receive loop of the handler ends; finally: self.clients.remove
handler_finally(c) ==
    /\ conn[c] = "closed"
    /\ conn' = [conn EXCEPT ![c] = "none"]
    /\ clients' = clients \ {c}
    /\ sent' = None
    /\ UNCHANGED <<replayVars, storeVars, fanVars, pcr_data, fetchVars, cacheVars, now,
                   taskVars, resolverVars>>

\* the answers of the candle providers to one tick: Upstox serves every
\* symbol or is not set up, TradingView serves its rows or fails, and the
\* Yahoo module is not installed
BridgeFetchInputs ==
    {[avail |-> av, setup |-> "ok",
      upstox |-> [i \in 1 .. Len(FetchSymbols) |-> GoodCandles],
      tv |-> t, yahooAvail |-> FALSE,
      yahoo |-> [i \in 1 .. Len(FetchSymbols) |-> Answer("raise")]] :
        av \in BOOLEAN,
        t \in {Answer("raise"),
                [kind |-> "rows",
                 rows |-> << TvRow("RELIANCE", 200, 9), TvRow("NIFTY", 201, 0) >>]}}

\* mutant: broadcast without its "if self.clients"
broadcast_Ungated ==
    /\ Alive
    /\ \E in \in BridgeFetchInputs :
          LET data == fetch_candles(in, pcr_data)
          IN IF data.raised
             THEN /\ task' = [task EXCEPT !["candles"] = "crashed"]
                  /\ sent' = None
             ELSE IF data.data # << >>
                  THEN LiveEmit("candles", LiveCandleMsg(data.data), FALSE)
                  ELSE NoLiveEmit
    /\ UNCHANGED <<clients, conn, replayVars, storeVars, fanVars, pcr_data, fetchVars,
                   cacheVars, now, ocVars, TrendlyneDB, resolverVars>>

\* one pass of the loop of broadcast
broadcast ==
    /\ Alive
    /\ IF clients # {}
       THEN \E in \in BridgeFetchInputs :
              LET data == fetch_candles(in, pcr_data)
              IN IF data.raised
                 THEN /\ task' = [task EXCEPT !["candles"] = "crashed"]
                      /\ sent' = None
                 ELSE IF data.data # << >>
                      THEN LiveEmit("candles", LiveCandleMsg(data.data), FALSE)
                      ELSE NoLiveEmit
       ELSE NoLiveEmit
    /\ UNCHANGED <<clients, conn, replayVars, storeVars, fanVars, pcr_data, fetchVars,
                   cacheVars, now, ocVars, TrendlyneDB, resolverVars>>

\* get_market_breadth of the NSE client, and the TradingView screener rows
\* (their change column)
NseBreadthAnswers ==
    {Answer("raise"), Answer("invalid"),
     [kind |-> "counts", Advances |-> 3, Declines |-> 1, Unchange |-> 1, Total |-> 5]}
TvBreadthAnswers == {Answer("raise"), [kind |-> "rows", change |-> <<2, 0 - 1, 0, 1>>]}
TvBreadthTotal == 50

\* breadth_msg of one pass: built from the NSE counts; from the screener
\* rows when the NSE call raised; else None
BreadthMessage(nse, tv, now_ms) ==
    LET rows == tv.change
    IN IF nse.kind = "counts"
       THEN LiveBreadthMsg(now_ms, nse.Advances, nse.Declines, nse.Unchange,
                           nse.Total, "none")
       ELSE IF nse.kind = "raise" /\ tv.kind = "rows"
       THEN LiveBreadthMsg(now_ms,
                           Cardinality({i \in DOMAIN rows : rows[i] > 0}),
                           Cardinality({i \in DOMAIN rows : rows[i] < 0}),
                           Cardinality({i \in DOMAIN rows : rows[i] = 0}),
                           TvBreadthTotal, "TV_FALLBACK")
       ELSE None

\* one pass of the loop of broadcast_market_breadth
broadcast_market_breadth ==
    /\ Alive
    /\ \E nse \in NseBreadthAnswers, tv \in TvBreadthAnswers, fails \in BOOLEAN :
          LET breadth_msg == BreadthMessage(nse, tv, NowMs)
          IN IF breadth_msg # None
             THEN /\ market_breadth' =
                        IF TrendlyneDB
                        THEN save_breadth(market_breadth, TargetDate, TimeStr(now),
                                          breadth_msg.data, fails)
                        ELSE market_breadth
                  /\ IF clients # {} THEN LiveEmit("breadth", breadth_msg, FALSE)
                     ELSE NoLiveEmit
             ELSE /\ UNCHANGED market_breadth
                  /\ NoLiveEmit
    /\ UNCHANGED <<clients, conn, replayVars, backtest_candles, option_aggregates,
                   option_chain_details,
                   pcr_history, fanVars, pcr_data, fetchVars, cacheVars, now, ocVars,
                   TrendlyneDB, resolverVars>>

\* get_option_chain_v3 of the NSE client: the filtered totals of open interest
PcrAnswers ==
    {Answer("raise"), Answer("invalid"),
     [kind |-> "oi", ce_oi |-> 100, pe_oi |-> 125],
     [kind |-> "oi", ce_oi |-> 0, pe_oi |-> 50]}
EodHour == 15
EodMinute == 25

\* the for-loop of update_pcr from symbol i on; dbRaises tells that the read
\* of the store raises, which the outer try block catches after the loop is
\* left
RECURSIVE PcrLoop(_, _, _, _, _)
PcrLoop(answers, dbRaises, i, pcrs, history) ==
    IF i > Len(IndexSymbols) THEN [pcr_data |-> pcrs, history |-> history]
    ELSE LET sym == IndexSymbols[i]
             a == answers[i]
             agg == get_latest_aggregates(option_aggregates, sym)
             ratio == Round2(a.pe_oi, a.ce_oi)
         IN IF a.kind = "oi" /\ a.ce_oi > 0
            THEN PcrLoop(answers, dbRaises, i + 1, [pcrs EXCEPT ![sym] = ratio],
                         IF now \div 60 = EodHour /\ now % 60 >= EodMinute /\ TrendlyneDB
                         THEN save_daily_stats(history, sym, TargetDate, ratio,
                                               a.ce_oi, a.pe_oi, dbRaises)
                         ELSE history)
            ELSE IF ~TrendlyneDB
            THEN PcrLoop(answers, dbRaises, i + 1, [pcrs EXCEPT ![sym] = DefaultPcr],
                         history)
            ELSE IF dbRaises THEN [pcr_data |-> pcrs, history |-> history]
            ELSE PcrLoop(answers, dbRaises, i + 1,
                         IF agg # None THEN [pcrs EXCEPT ![sym] = agg.pcr] ELSE pcrs,
                         history)

\* one pass of the loop of update_pcr: the ratios are cached; no message is
\* built and nothing is sent
update_pcr ==
    /\ Alive
    /\ \E answers \in [1 .. Len(IndexSymbols) -> PcrAnswers], dbRaises \in BOOLEAN :
          LET r == PcrLoop(answers, dbRaises, 1, pcr_data, pcr_history)
          IN /\ pcr_data' = r.pcr_data
             /\ pcr_history' = r.history
    /\ sent' = None
    /\ UNCHANGED <<clients, conn, replayVars, backtest_candles, option_aggregates,
                   option_chain_details,
                   market_breadth, fetchVars, fanVars, cacheVars, now, taskVars, resolverVars>>

\* the answers of the option providers to one fetch_live_snapshot
StockId == 1
UpstoxChainAnswers ==
    {Answer("raise"), Answer("empty"),
     [kind |-> "chain",
      rows |-> << [strike |-> 100, c_oi |-> 0, p_oi |-> 0, c_prev |-> 0, p_prev |-> 0] >>],
     [kind |-> "chain",
      rows |-> << [strike |-> 100, c_oi |-> 100, p_oi |-> 125, c_prev |-> 90,
                   p_prev |-> 120] >>]}
TrendlyneAnswers ==
    {Answer("raise"), Answer("badstatus"),
     [kind |-> "ok", rows |-> << >>],
     [kind |-> "ok",
      rows |-> << [strike |-> 100, callOi |-> 100, putOi |-> 125, callOiChange |-> 10,
                   putOiChange |-> 5] >>]}
SnapshotAnswers ==
    [avail : BOOLEAN, stock1 : {0, StockId}, stock2 : {0, StockId},
     expiry1 : {0, ExpiryDay}, expiry2 : {0, ExpiryDay},
     upstox : UpstoxChainAnswers, trendlyne : TrendlyneAnswers, saveFails : BOOLEAN]

\* the answers met in the run of the bridge: both lookups and both reads of
\* the expiry list answer alike, Upstox is not set up or answers with a
\* chain, and Trendlyne fails or answers with a chain
BridgeSnapshotAnswers ==
    {[avail |-> av, stock1 |-> sid, stock2 |-> sid, expiry1 |-> sid * ExpiryDay,
      expiry2 |-> sid * ExpiryDay, upstox |-> up, trendlyne |-> tl, saveFails |-> f] :
        av \in BOOLEAN, sid \in {0, StockId}, f \in BOOLEAN,
        up \in {u \in UpstoxChainAnswers : u.kind = "chain" /\ u.rows[1].c_oi > 0},
        tl \in {t \in TrendlyneAnswers :
                   t.kind = "raise" \/ (t.kind = "ok" /\ t.rows # << >>)}}

\* the state fetch_live_snapshot reads and writes
OptionStoreState ==
    [aggs |-> option_aggregates, dets |-> option_chain_details,
     sid |-> STOCK_ID_CACHE, exp |-> EXPIRY_CACHE]

\* mutant: a new pass is started while a fetched chain awaits its fan-out
OptionTick_Overlapping ==
    /\ Alive
    /\ oc_pc \in {"sleep", "send"}
    /\ IF TrendlyneDB /\ clients # {}
       THEN oc_pc' = "fetch" /\ oc_idx' = 1
       ELSE UNCHANGED <<oc_pc, oc_idx>>
    /\ sent' = None
    /\ UNCHANGED <<clients, conn, replayVars, storeVars, pcr_data, fetchVars, fanVars,
                   cacheVars, now, task, oc_chain, TrendlyneDB, resolverVars>>

\* the head of the loop of broadcast_option_chain, after the sleep
OptionTick ==
    /\ Alive
    /\ oc_pc = "sleep"
    /\ IF TrendlyneDB /\ clients # {}
       THEN oc_pc' = "fetch" /\ oc_idx' = 1
       ELSE UNCHANGED <<oc_pc, oc_idx>>
    /\ sent' = None
    /\ UNCHANGED <<clients, conn, replayVars, storeVars, pcr_data, fetchVars, fanVars,
                   cacheVars, now, task, oc_chain, TrendlyneDB, resolverVars>>

\* fetch_live_snapshot(sym) in the executor
OptionFetch ==
    /\ Alive
    /\ oc_pc = "fetch"
    /\ \E a \in BridgeSnapshotAnswers :
          LET r == fetch_live_snapshot(OptionStoreState, IndexSymbols[oc_idx], a, now)
          IN /\ option_aggregates' = r.S.aggs
             /\ option_chain_details' = r.S.dets
             /\ STOCK_ID_CACHE' = r.S.sid
             /\ EXPIRY_CACHE' = r.S.exp
             /\ oc_chain' = r.ret
    /\ oc_pc' = "send"
    /\ sent' = None
    /\ UNCHANGED <<clients, conn, replayVars, backtest_candles, market_breadth, pcr_history,
                   pcr_data,
                   fetchVars, fanVars, now, task, oc_idx, TrendlyneDB, resolverVars>>

\* the task resumes with the chain: if chain, the message is built and sent;
\* the loop goes on to the next symbol or to the sleep
OptionSend ==
    /\ Alive
    /\ oc_pc = "send"
    /\ IF oc_chain # {}
       THEN LiveEmit("option_chain",
                     LiveOptionChainMsg(IndexSymbols[oc_idx], NowMs, oc_chain), TRUE)
       ELSE NoLiveEmit
    /\ oc_chain' = {}
    /\ IF oc_idx < Len(IndexSymbols)
       THEN oc_pc' = "fetch" /\ oc_idx' = oc_idx + 1
       ELSE oc_pc' = "sleep" /\ oc_idx' = 1
    /\ UNCHANGED <<clients, conn, replayVars, storeVars, fanVars, pcr_data, fetchVars,
                   cacheVars, now, TrendlyneDB, resolverVars>>

BridgeInit == ReplayIdle /\ \E db \in BOOLEAN : LiveIdleWith(db)

BridgeNext ==
    \/ \E c \in Clients : handler(c)
    \/ \E c \in Clients : ConnectionClosed(c)
    \/ \E c \in Clients : handler_finally(c)
    \/ broadcast
    \/ broadcast_market_breadth
    \/ update_pcr
    \/ OptionTick
    \/ OptionFetch
    \/ OptionSend

SpecBridge == BridgeInit /\ [][BridgeNext]_vars

(***************************************************************************)
(* fetch_live_snapshot under study: calls for NIFTY against every answer   *)
(* of the providers, in a process whose caches start empty and whose store *)
(* file is empty or holds a snapshot an earlier run wrote (for NIFTY or    *)
(* for BANKNIFTY, at the minute the clock shows).                          *)
(***************************************************************************)
StudySymbol == "NIFTY"

FetchLiveSnapshotOver(answers) ==
    /\ tk_pc = "idle"
    /\ \E a \in answers :
          LET r == fetch_live_snapshot(OptionStoreState, StudySymbol, a, now)
          IN /\ option_aggregates' = r.S.aggs
             /\ option_chain_details' = r.S.dets
             /\ STOCK_ID_CACHE' = r.S.sid
             /\ EXPIRY_CACHE' = r.S.exp
             /\ tk_in' = a
             /\ tk_prev' = OptionStoreState
             /\ tk_result' = r.ret
    /\ tk_pc' = "done"
    /\ UNCHANGED <<clients, conn, replayVars, backtest_candles, market_breadth, pcr_history,
                   fanVars,
                   pcr_data, fc_pc, fc_in, fc_result, sent, now, taskVars, resolverVars>>

CallFetchLiveSnapshot == FetchLiveSnapshotOver(SnapshotAnswers)

\* the caller is done with the chain
ReturnFetchLiveSnapshot ==
    /\ tk_pc = "done"
    /\ tk_pc' = "idle"
    /\ tk_in' = None
    /\ tk_prev' = None
    /\ tk_result' = None
    /\ UNCHANGED <<clients, conn, replayVars, storeVars, fanVars, pcr_data, fc_pc, fc_in,
                   fc_result, sent, cacheVars, now, taskVars, resolverVars>>

SnapshotInit ==
    /\ EngineIdle
    /\ LiveIdle
    /\ market_breadth = {}
    /\ pcr_history = {}
    /\ backtest_candles = {}
    /\ \E sym \in {"none", "NIFTY", "BANKNIFTY"} :
          /\ option_aggregates = IF sym = "none" THEN {}
                                 ELSE {SnapAggregate(sym, BaseMinute)}
          /\ option_chain_details = IF sym = "none" THEN {}
                                    ELSE SnapDetails(sym, BaseMinute)

SnapshotNext == CallFetchLiveSnapshot \/ ReturnFetchLiveSnapshot

SpecSnapshot == SnapshotInit /\ [][SnapshotNext]_vars

(***************************************************************************)
(* update_pcr under study: passes of its loop against every answer of the  *)
(* NSE client for the two symbols, in a process that has the store module  *)
(* or not, over a store that holds no aggregate, one for NIFTY, or one for *)
(* each symbol (taken a minute after the first bucket: their ratio differs *)
(* from the live one).  The answers, and the ratios cached before the      *)
(* pass, are kept until the task sleeps.                                   *)
(***************************************************************************)
EodTime == EodHour * 60 + EodMinute

CallUpdatePcr ==
    /\ tk_pc = "idle"
    /\ \E answers \in [1 .. Len(IndexSymbols) -> PcrAnswers], dbRaises \in BOOLEAN :
          LET r == PcrLoop(answers, dbRaises, 1, pcr_data, pcr_history)
          IN /\ pcr_data' = r.pcr_data
             /\ pcr_history' = r.history
             /\ tk_in' = [answers |-> answers, dbRaises |-> dbRaises]
             /\ tk_prev' = pcr_data
             /\ tk_result' = r.pcr_data
    /\ tk_pc' = "done"
    /\ UNCHANGED <<clients, conn, replayVars, backtest_candles, option_aggregates,
                   option_chain_details,
                   market_breadth, fanVars, fc_pc, fc_in, fc_result, sent, cacheVars,
                   now, taskVars, resolverVars>>

\* asyncio.sleep(60): the next pass comes in the same part of the day, or
\* the day has gone on to the minutes before the close
SleepUpdatePcr ==
    /\ tk_pc = "done"
    /\ tk_pc' = "idle"
    /\ tk_in' = None
    /\ tk_prev' = None
    /\ tk_result' = None
    /\ now' \in {now, EodTime}
    /\ UNCHANGED <<clients, conn, replayVars, storeVars, fanVars, pcr_data, fc_pc, fc_in,
                   fc_result, sent, cacheVars, taskVars, resolverVars>>

PcrInit ==
    /\ EngineIdle
    /\ \E db \in BOOLEAN : LiveIdleWith(db)
    /\ option_chain_details = {}
    /\ market_breadth = {}
    /\ pcr_history = {}
    /\ backtest_candles = {}
    /\ \E n \in 0 .. Len(IndexSymbols) :
          option_aggregates =
              {SnapAggregate(IndexSymbols[i], BaseMinute + 1) : i \in 1 .. n}

PcrNext == CallUpdatePcr \/ SleepUpdatePcr

SpecPcr == PcrInit /\ [][PcrNext]_vars

(***************************************************************************)
(* The put-call ratios of the system: passes of update_pcr next to         *)
(* snapshot fetches whose providers answer with chains that have call      *)
(* open interest, chains that have put open interest only, and chains      *)
(* without any.                                                            *)
(***************************************************************************)
RatioSnapshotAnswers ==
    {[avail |-> av, stock1 |-> StockId, stock2 |-> StockId, expiry1 |-> ExpiryDay,
      expiry2 |-> ExpiryDay, upstox |-> up, trendlyne |-> tl, saveFails |-> FALSE] :
        av \in BOOLEAN,
        up \in UpstoxChainAnswers \cup
               {[kind |-> "chain",
                 rows |-> << [strike |-> 100, c_oi |-> 0, p_oi |-> 50, c_prev |-> 0,
                              p_prev |-> 40] >>]},
        tl \in TrendlyneAnswers \cup
               {[kind |-> "ok",
                 rows |-> << [strike |-> 100, callOi |-> 0, putOi |-> 50,
                              callOiChange |-> 0, putOiChange |-> 5] >>]}}

RatioFetchLiveSnapshot == FetchLiveSnapshotOver(RatioSnapshotAnswers)

RatioNext ==
    CallUpdatePcr \/ SleepUpdatePcr \/ RatioFetchLiveSnapshot \/ ReturnFetchLiveSnapshot

SpecRatio == PcrInit /\ [][RatioNext]_vars

(***************************************************************************)
(* The candle task under study: passes of the loop of broadcast with one   *)
(* or two registered clients (connected, or gone with their handler not    *)
(* yet resumed), against answers of the providers in which every tier      *)
(* serves or fails as a whole.  fetch_candles has no await inside, so the  *)
(* pass runs from the call to the gather without another coroutine in      *)
(* between; it is cut in two steps here to keep the answers in view.       *)
(***************************************************************************)
TickFetchInputs ==
    {[avail |-> av, setup |-> st,
      upstox |-> [i \in 1 .. Len(FetchSymbols) |-> u],
      tv |-> t, yahooAvail |-> ya,
      yahoo |-> [i \in 1 .. Len(FetchSymbols) |-> y]] :
        av \in BOOLEAN, st \in {"ok", "raise"},
        u \in {Answer("raise"), Answer("keyraise"), GoodCandles},
        t \in {Answer("raise"),
                [kind |-> "rows",
                 rows |-> << TvRow("RELIANCE", 200, 9), TvRow("NIFTY", 201, 0) >>]},
        ya \in BOOLEAN,
        y \in {Answer("raise"), [kind |-> "row", row |-> YahooRow(300, 3)]}}

\* if self.clients: data = await self.fetch_candles()
CandleTickFetch ==
    /\ Alive
    /\ fc_pc = "idle"
    /\ clients # {}
    /\ \E in \in TickFetchInputs :
          /\ fc_in' = in
          /\ fc_result' = fetch_candles(in, pcr_data)
    /\ fc_pc' = "done"
    /\ sent' = None
    /\ UNCHANGED <<clients, conn, replayVars, storeVars, fanVars, pcr_data, cacheVars,
                   now, taskVars, resolverVars, tickVars>>

\* if data: the message is built and sent; then asyncio.sleep(10)
CandleTickSend ==
    /\ Alive
    /\ fc_pc = "done"
    /\ IF fc_result.raised
       THEN /\ task' = [task EXCEPT !["candles"] = "crashed"]
            /\ sent' = None
       ELSE IF fc_result.data # << >>
            THEN LiveEmit("candles", LiveCandleMsg(fc_result.data), FALSE)
            ELSE NoLiveEmit
    /\ fc_pc' = "idle"
    /\ fc_in' = None
    /\ fc_result' = Ok(<< >>)
    /\ UNCHANGED <<clients, conn, replayVars, storeVars, fanVars, pcr_data, cacheVars,
                   now, ocVars, TrendlyneDB, resolverVars, tickVars>>

CandleTickInit ==
    /\ \E db \in BOOLEAN : LiveIdleWith(db)
    /\ EmptyStore
    /\ \E cn \in [Clients -> {"none", "open", "closed"}] :
          /\ conn = cn
          /\ clients = {c \in Clients : cn[c] # "none"}
          /\ everConnected = (clients # {})
    /\ clients # {}
    /\ pc = "LOADED"
    /\ idx = 1
    /\ start_time = TimeStr(BaseMinute)
    /\ end_time = TimeStr(BaseMinute)
    /\ speed = InstantSpeed
    /\ candle_data = load_candle_data({})
    /\ current_dt = 0
    /\ current_time = NoTime
    /\ log = << >>
    /\ lastTargets = {}
    /\ lastDelivered = {}
    /\ sleeps = << >>

CandleTickNext == CandleTickFetch \/ CandleTickSend

SpecCandleTick == CandleTickInit /\ [][CandleTickNext]_vars

(***************************************************************************)
(* The breadth task under study: passes of the loop of                     *)
(* broadcast_market_breadth with the answers of the two providers and the  *)
(* outcome of the write kept in view until the task sleeps.                *)
(***************************************************************************)
BreadthTick ==
    /\ Alive
    /\ tk_pc = "idle"
    /\ \E nse \in NseBreadthAnswers, tv \in TvBreadthAnswers, fails \in BOOLEAN :
          LET breadth_msg == BreadthMessage(nse, tv, NowMs)
          IN /\ tk_in' = [nse |-> nse, tv |-> tv, fails |-> fails]
             /\ tk_prev' = [breadth |-> market_breadth]
             /\ tk_result' = breadth_msg
             /\ IF breadth_msg # None
                THEN /\ market_breadth' =
                           IF TrendlyneDB
                           THEN save_breadth(market_breadth, TargetDate, TimeStr(now),
                                             breadth_msg.data, fails)
                           ELSE market_breadth
                     /\ IF clients # {} THEN LiveEmit("breadth", breadth_msg, FALSE)
                        ELSE NoLiveEmit
                ELSE /\ UNCHANGED market_breadth
                     /\ NoLiveEmit
    /\ tk_pc' = "done"
    /\ UNCHANGED <<clients, conn, replayVars, backtest_candles, option_aggregates,
                   option_chain_details, pcr_history, fanVars, pcr_data, fc_pc, fc_in,
                   fc_result, cacheVars, now, ocVars, TrendlyneDB, resolverVars>>

\* asyncio.sleep(30)
BreadthSleep ==
    /\ Alive
    /\ tk_pc = "done"
    /\ tk_pc' = "idle"
    /\ tk_in' = None
    /\ tk_prev' = None
    /\ tk_result' = None
    /\ sent' = None
    /\ UNCHANGED <<clients, conn, replayVars, storeVars, fanVars, pcr_data, fc_pc, fc_in,
                   fc_result, cacheVars, now, taskVars, resolverVars>>

BreadthNext == BreadthTick \/ BreadthSleep

SpecBreadth == CandleTickInit /\ [][BreadthNext]_vars

(***************************************************************************)
(* The writers of the store under study: save_snapshot and save_breadth of *)
(* OptionDatabase, called at the minute the clock shows with one of two    *)
(* sets of values, and collect_upstox_candles of the backtest collector    *)
(* (collect_backtest_data.py), run against the answers of the history API  *)
(* for an equity and an index.  A candle of the API is [ts, open, high,    *)
(* low, close, volume] with ts an ISO timestamp, here its date and its     *)
(* minute of the day.  The arguments of the last write and the tables it   *)
(* started from are kept until the caller goes on.                         *)
(***************************************************************************)
CollectSymbols == <<"RELIANCE", "NIFTY">>     \* SYMBOLS

IsoCandle(d, m, p, v) ==
    [ts |-> [date |-> d, minute |-> m], open |-> p, high |-> p + 2, low |-> p - 1,
     close |-> p + 1, volume |-> v]

CollectAnswers ==
    {Answer("nokey"), Answer("raise"), Answer("nodata"),
     [kind |-> "candles", candles |-> << IsoCandle(TargetDate, BaseMinute, 90, 5) >>],
     [kind |-> "candles",
      candles |-> << IsoCandle(TargetDate, BaseMinute, 100, 7),
                     IsoCandle(TargetDate + 1, BaseMinute + 1, 101, 8) >>]}

\* the values of one INSERT OR REPLACE INTO backtest_candles: the date is
\* the target date of the run, the time the HH:MM of the candle's timestamp
CollectedRow(symbol, candle) ==
    [symbol |-> symbol, date |-> TargetDate, timestamp |-> TimeStr(candle.ts.minute),
     open |-> candle.open, high |-> candle.high, low |-> candle.low,
     close |-> candle.close,
     volume |-> IF symbol \in {"NIFTY", "BANKNIFTY"} THEN 0 ELSE candle.volume,
     source |-> "upstox"]

\* INSERT OR REPLACE under PRIMARY KEY (symbol, date, timestamp)
ReplaceCandle(table, row) ==
    {r \in table : ~(r.symbol = row.symbol /\ r.date = row.date
                     /\ r.timestamp = row.timestamp)} \cup {row}

\* for candle in candles: cursor.execute(INSERT OR REPLACE ...)
RECURSIVE InsertCandles(_, _, _, _)
InsertCandles(table, symbol, candles, i) ==
    IF i > Len(candles) THEN table
    ELSE InsertCandles(ReplaceCandle(table, CollectedRow(symbol, candles[i])),
                       symbol, candles, i + 1)

\* the for-loop of collect_upstox_candles from symbol i on: a symbol without
\* key, response or candles is skipped, one whose call raises is skipped by
\* the except; the rows of a symbol are committed together
RECURSIVE CollectLoop(_, _, _)
CollectLoop(answers, i, table) ==
    IF i > Len(CollectSymbols) THEN table
    ELSE IF answers[i].kind # "candles" THEN CollectLoop(answers, i + 1, table)
    ELSE CollectLoop(answers, i + 1,
                     InsertCandles(table, CollectSymbols[i], answers[i].candles, 1))

\* the values a snapshot or a breadth row is written with
SnapshotValues ==
    {{[strike |-> 100, call_oi |-> 100, put_oi |-> 125, call_oi_chg |-> 10,
       put_oi_chg |-> 5]},
     {[strike |-> 100, call_oi |-> 110, put_oi |-> 120, call_oi_chg |-> 0,
       put_oi_chg |-> 0 - 5],
      [strike |-> 200, call_oi |-> 40, put_oi |-> 30, call_oi_chg |-> 4,
       put_oi_chg |-> 3]}}
BreadthValues ==
    {[advances |-> 3, declines |-> 1, unchanged |-> 1, total |-> 5],
     [advances |-> 2, declines |-> 1, unchanged |-> 1, total |-> TvBreadthTotal]}

\* the totals the callers of save_snapshot sum over the strikes
RECURSIVE TotalCallOi(_)
TotalCallOi(ds) ==
    IF ds = {} THEN 0
    ELSE LET d == CHOOSE x \in ds : TRUE IN d.call_oi + TotalCallOi(ds \ {d})
RECURSIVE TotalPutOi(_)
TotalPutOi(ds) ==
    IF ds = {} THEN 0
    ELSE LET d == CHOOSE x \in ds : TRUE IN d.put_oi + TotalPutOi(ds \ {d})

StoreTables ==
    [aggs |-> option_aggregates, dets |-> option_chain_details,
     breadth |-> market_breadth, candles |-> backtest_candles]

CallSaveSnapshot ==
    /\ tk_pc = "idle"
    /\ \E symbol \in {IndexSymbols[i] : i \in DOMAIN IndexSymbols},
          details \in SnapshotValues, fails \in BOOLEAN :
          LET aggregates == [call_oi |-> TotalCallOi(details),
                             put_oi |-> TotalPutOi(details),
                             pcr |-> PutCallRatio(TotalPutOi(details),
                                                  TotalCallOi(details))]
              saved == save_snapshot(option_aggregates, option_chain_details, symbol,
                                     TargetDate, TimeStr(now), ExpiryDay, aggregates,
                                     details, fails)
          IN /\ option_aggregates' = saved.aggs
             /\ option_chain_details' = saved.dets
             /\ tk_in' = [op |-> "save_snapshot", fails |-> fails, symbol |-> symbol,
                          trading_date |-> TargetDate, timestamp |-> TimeStr(now),
                          aggregates |-> aggregates, details |-> details]
    /\ tk_prev' = StoreTables
    /\ tk_result' = None
    /\ tk_pc' = "done"
    /\ UNCHANGED <<clients, conn, replayVars, backtest_candles, market_breadth,
                   pcr_history, fanVars, pcr_data, fc_pc, fc_in, fc_result, sent,
                   cacheVars, now, taskVars, resolverVars>>

CallSaveBreadth ==
    /\ tk_pc = "idle"
    /\ \E data \in BreadthValues, fails \in BOOLEAN :
          /\ market_breadth' = save_breadth(market_breadth, TargetDate, TimeStr(now),
                                            data, fails)
          /\ tk_in' = [op |-> "save_breadth", fails |-> fails,
                       trading_date |-> TargetDate, timestamp |-> TimeStr(now),
                       data |-> data]
    /\ tk_prev' = StoreTables
    /\ tk_result' = None
    /\ tk_pc' = "done"
    /\ UNCHANGED <<clients, conn, replayVars, backtest_candles, option_aggregates,
                   option_chain_details, pcr_history, fanVars, pcr_data, fc_pc, fc_in,
                   fc_result, sent, cacheVars, now, taskVars, resolverVars>>

collect_upstox_candles ==
    /\ tk_pc = "idle"
    /\ \E answers \in [1 .. Len(CollectSymbols) -> CollectAnswers] :
          /\ backtest_candles' = CollectLoop(answers, 1, backtest_candles)
          /\ tk_in' = [op |-> "collect_upstox_candles", fails |-> FALSE,
                       answers |-> answers]
    /\ tk_prev' = StoreTables
    /\ tk_result' = None
    /\ tk_pc' = "done"
    /\ UNCHANGED <<clients, conn, replayVars, option_aggregates, option_chain_details,
                   market_breadth, pcr_history, fanVars, pcr_data, fc_pc, fc_in,
                   fc_result, sent, cacheVars, now, taskVars, resolverVars>>

\* the caller of the writer goes on
ReturnWrite ==
    /\ tk_pc = "done"
    /\ tk_pc' = "idle"
    /\ tk_in' = None
    /\ tk_prev' = None
    /\ tk_result' = None
    /\ UNCHANGED <<clients, conn, replayVars, storeVars, fanVars, pcr_data, fc_pc, fc_in,
                   fc_result, sent, cacheVars, now, taskVars, resolverVars>>

UpsertInit == ReplayIdle /\ LiveIdle

UpsertNext == CallSaveSnapshot \/ CallSaveBreadth \/ collect_upstox_candles \/ ReturnWrite

SpecUpsert == UpsertInit /\ [][UpsertNext]_vars

(***************************************************************************)
(* The "latest" reads of the store, over tables that hold rows of two      *)
(* days.                                                                   *)
(***************************************************************************)
\* the last minute of the day before, and the first and last minute of the
\* window of the day
ReadStamps ==
    {[date |-> TargetDate - 1, timestamp |-> TimeStr(BaseMinute + NumBuckets)],
     [date |-> TargetDate, timestamp |-> TimeStr(BaseMinute)],
     [date |-> TargetDate, timestamp |-> TimeStr(BaseMinute + NumBuckets - 1)]}

\* the rows save_snapshot and save_breadth wrote under a stamp
StoredAggregate(sym, st) ==
    [symbol |-> sym, date |-> st.date, timestamp |-> st.timestamp, expiry |-> ExpiryDay,
     call_oi |-> 100, put_oi |-> 100 + ParseTime(st.timestamp) - BaseMinute,
     pcr |-> PutCallRatio(100 + ParseTime(st.timestamp) - BaseMinute, 100)]

StoredDetails(sym, st) ==
    {[symbol |-> sym, date |-> st.date, timestamp |-> st.timestamp, strike |-> k,
      call_oi |-> 100, put_oi |-> 100 + ParseTime(st.timestamp) - BaseMinute,
      call_oi_chg |-> 0, put_oi_chg |-> st.date] :
        k \in IF st.timestamp = TimeStr(BaseMinute) THEN {100} ELSE {100, 200}}

StoredBreadth(st) ==
    [date |-> st.date, timestamp |-> st.timestamp, advances |-> st.date,
     declines |-> ParseTime(st.timestamp) - BaseMinute, unchanged |-> 1,
     total |-> st.date + ParseTime(st.timestamp) - BaseMinute + 1]

CallGetLatestAggregates ==
    /\ tk_pc = "idle"
    /\ \E symbol \in {"NIFTY", "BANKNIFTY"} :
          /\ tk_in' = [op |-> "get_latest_aggregates", symbol |-> symbol]
          /\ tk_result' = get_latest_aggregates(option_aggregates, symbol)
    /\ tk_prev' = None
    /\ tk_pc' = "done"
    /\ UNCHANGED <<clients, conn, replayVars, storeVars, fanVars, pcr_data, fc_pc, fc_in,
                   fc_result, sent, cacheVars, now, taskVars, resolverVars>>

CallGetLatestChain ==
    /\ tk_pc = "idle"
    /\ \E symbol \in {"NIFTY", "BANKNIFTY"} :
          /\ tk_in' = [op |-> "get_latest_chain", symbol |-> symbol]
          /\ tk_result' = get_latest_chain(option_chain_details, symbol)
    /\ tk_prev' = None
    /\ tk_pc' = "done"
    /\ UNCHANGED <<clients, conn, replayVars, storeVars, fanVars, pcr_data, fc_pc, fc_in,
                   fc_result, sent, cacheVars, now, taskVars, resolverVars>>

CallGetLatestBreadth ==
    /\ tk_pc = "idle"
    /\ tk_in' = [op |-> "get_latest_breadth", symbol |-> "none"]
    /\ tk_result' = get_latest_breadth(market_breadth)
    /\ tk_prev' = None
    /\ tk_pc' = "done"
    /\ UNCHANGED <<clients, conn, replayVars, storeVars, fanVars, pcr_data, fc_pc, fc_in,
                   fc_result, sent, cacheVars, now, taskVars, resolverVars>>

ReadsInit ==
    /\ EngineIdle
    /\ LiveIdle
    /\ pcr_history = {}
    /\ backtest_candles = {}
    /\ \E held \in [{"NIFTY", "BANKNIFTY"} -> SUBSET ReadStamps] :
          /\ option_aggregates =
                {StoredAggregate(sym, st) : sym \in {"NIFTY"}, st \in held["NIFTY"]}
                \cup {StoredAggregate(sym, st) : sym \in {"BANKNIFTY"},
                                                  st \in held["BANKNIFTY"]}
          /\ option_chain_details =
                UNION ({StoredDetails("NIFTY", st) : st \in held["NIFTY"]}
                       \cup {StoredDetails("BANKNIFTY", st) : st \in held["BANKNIFTY"]})
    /\ \E held \in SUBSET ReadStamps :
          market_breadth = {StoredBreadth(st) : st \in held}

ReadsNext ==
    CallGetLatestAggregates \/ CallGetLatestChain \/ CallGetLatestBreadth \/ ReturnWrite

SpecReads == ReadsInit /\ [][ReadsNext]_vars

(***************************************************************************)
(* The resolver used by one caller: calls of initialize, get_upstox_key    *)
(* and get_ticker_from_key against a catalog endpoint that fails or        *)
(* answers with one of the bodies of Contents, in a process that may be    *)
(* started again (the cache file stays on disk).                           *)
(***************************************************************************)
SymbolInputs ==
    {ITC, <<"i", "t", "c">>, <<"I", "t", "c">>, NIFTY, <<"n", "i", "f", "t", "y">>,
     Nifty50, <<"N", "I", "F", "T", "Y", " ", "5", "0">>, BANKNIFTY, <<"x", "y", "z">>}

KeyInputs ==
    {EquityKey(<<"1">>), EquityKey(<<"2">>), EquityKey(<<"9">>), IndexKey(Nifty50),
     IndexKey(NiftyBank)}

Returned(r) ==
    [raised |-> r.raised, value |-> r.value, downloaded |-> r.downloaded,
     cacheRead |-> r.cacheRead]

ResolverCall(op, arg, a, r) ==
    /\ tk_pc = "idle"
    /\ mappings' = r.S.mappings
    /\ reverse_mappings' = r.S.reverse_mappings
    /\ initialized' = r.S.initialized
    /\ cache_file' = r.S.cache_file
    /\ tk_in' = [op |-> op, arg |-> arg, answer |-> a]
    /\ tk_prev' = ResolverState
    /\ tk_result' = Returned(r)
    /\ tk_pc' = "done"
    /\ UNCHANGED <<clients, conn, replayVars, storeVars, fanVars, pcr_data, fc_pc, fc_in,
                   fc_result, sent, cacheVars, now, taskVars, im_pc, im_content>>

CallInitialize ==
    \E a \in DownloadAnswers :
       LET i == initialize(ResolverState, a)
       IN ResolverCall("initialize", NotFound, a,
                       [S |-> i.S, raised |-> i.raised, value |-> NotFound,
                        downloaded |-> i.downloaded, cacheRead |-> i.cacheRead])

CallGetUpstoxKey ==
    \E a \in DownloadAnswers, symbol \in SymbolInputs :
       ResolverCall("get_upstox_key", symbol, a, get_upstox_key(ResolverState, symbol, a))

CallGetTickerFromKey ==
    \E a \in DownloadAnswers, key \in KeyInputs :
       ResolverCall("get_ticker_from_key", key, a,
                    get_ticker_from_key(ResolverState, key, a))

ReturnResolver ==
    /\ tk_pc = "done"
    /\ tk_pc' = "idle"
    /\ tk_in' = None
    /\ tk_prev' = None
    /\ tk_result' = None
    /\ UNCHANGED <<clients, conn, replayVars, storeVars, fanVars, pcr_data, fc_pc, fc_in,
                   fc_result, sent, cacheVars, now, taskVars, resolverVars>>

\* the process ends and the module is imported by a new one
ProcessRestart ==
    /\ tk_pc = "idle"
    /\ \A c \in Callers : im_pc[c] = "idle"
    /\ mappings # EmptyDict \/ initialized
    /\ mappings' = EmptyDict
    /\ reverse_mappings' = EmptyDict
    /\ initialized' = FALSE
    /\ UNCHANGED <<clients, conn, replayVars, storeVars, fanVars, pcr_data, fc_pc, fc_in,
                   fc_result, sent, cacheVars, now, taskVars, tickVars, cache_file, im_pc, im_content>>

ResolverInit == ReplayIdle /\ LiveIdle

ResolverNext ==
    CallInitialize \/ CallGetUpstoxKey \/ CallGetTickerFromKey \/ ReturnResolver
    \/ ProcessRestart

SpecResolver == ResolverInit /\ [][ResolverNext]_vars

(***************************************************************************)
(* The resolver used by its threads:  initialize in its steps.  A call made *)
(* when the flag is set returns at once and changes nothing.               *)
(***************************************************************************)
\* if self._initialized: return -- passed with the flag not set
EnterInitialize(c) ==
    /\ im_pc[c] = "idle"
    /\ ~initialized
    /\ im_pc' = [im_pc EXCEPT ![c] = "download"]
    /\ UNCHANGED <<clients, conn, replayVars, storeVars, fanVars, pcr_data, fc_pc, fc_in,
                   fc_result, sent, cacheVars, now, taskVars, tickVars, mappings, reverse_mappings, initialized, cache_file,
                   im_content>>

\* requests.get, the write of the cache file, or the fallback to it
DownloadStep(c) ==
    /\ im_pc[c] = "download"
    /\ \E a \in DownloadAnswers :
          LET got == Acquire(cache_file, a)
          IN /\ cache_file' = got.cache_file
             /\ im_content' = [im_content EXCEPT ![c] = got.content]
             /\ im_pc' = [im_pc EXCEPT ![c] = IF got.raised THEN "idle" ELSE "parse"]
    /\ UNCHANGED <<clients, conn, replayVars, storeVars, fanVars, pcr_data, fc_pc, fc_in,
                   fc_result, sent, cacheVars, now, taskVars, tickVars, mappings, reverse_mappings, initialized>>

\* the parse, the loop over the rows and the flag
ParseStep(c) ==
    /\ im_pc[c] = "parse"
    /\ LET p == Parse(mappings, reverse_mappings, initialized, im_content[c])
       IN /\ mappings' = p.mappings
          /\ reverse_mappings' = p.reverse_mappings
          /\ initialized' = p.initialized
    /\ im_pc' = [im_pc EXCEPT ![c] = "idle"]
    /\ im_content' = [im_content EXCEPT ![c] = NoFile]
    /\ UNCHANGED <<clients, conn, replayVars, storeVars, fanVars, pcr_data, fc_pc, fc_in,
                   fc_result, sent, cacheVars, now, taskVars, tickVars, cache_file>>

RaceNext ==
    \/ \E c \in Callers : EnterInitialize(c)
    \/ \E c \in Callers : DownloadStep(c)
    \/ \E c \in Callers : ParseStep(c)
    \/ ProcessRestart

SpecResolverRace == ResolverInit /\ [][RaceNext]_vars

(***************************************************************************)
(* Reading the log.                                                        *)
(***************************************************************************)
IsCandle(e) == e.msg.type = "candle_update"
CandleEntries == SelectSeq(log, IsCandle)
EntriesAt(b) == SelectSeq(log, LAMBDA e : e.bucket = b)
Tag(e) == <<e.msg.type, IF IsCandle(e) THEN "all" ELSE e.msg.symbol>>
Tags(es) == [i \in DOMAIN es |-> Tag(es[i])]
IsPrefix(a, b) == Len(a) <= Len(b) /\ \A i \in DOMAIN a : a[i] = b[i]
Playing == pc \in {"LOOP", "CANDLES", "CHAIN", "PCR", "ADVANCE", "SLEEP"}
StartMin == ParseTime(start_time)
EndMin == ParseTime(end_time)

\* the buckets whose iteration of the while loop has finished
DoneBuckets ==
    IF pc \in {"LOADED", "WAITING", "STARTING"} THEN {}
    ELSE {TimeStr(m) : m \in {k \in StartMin .. EndMin :
                                 k < current_dt \/ pc = "COMPLETED"}}

(***************************************************************************)
(* C1.  No candle_update, option_chain or pcr_update message is emitted    *)
(* and replay_loop is not entered before at least one subscriber has       *)
(* connected; while the subscriber set is empty after the transport is     *)
(* opened, the engine stays in WAITING_FOR_CLIENT.                         *)
(***************************************************************************)
C1_NoPlaybackBeforeSubscriber ==
    /\ []((log # <<>> \/ pc \notin {"LOADED", "WAITING"}) => everConnected)
    /\ [][(pc = "WAITING" /\ clients = {}) => pc' = "WAITING"]_vars

C1_Witness == pc = "COMPLETED" /\ log # <<>> /\ everConnected

(***************************************************************************)
(* C2.  As claimed: playback emits exactly one candle_update per minute    *)
(* bucket from startTime to endTime inclusive, in ascending order, with no *)
(* bucket skipped or repeated.                                             *)
(***************************************************************************)
C2_OnePerBucket ==
    (pc = "COMPLETED" /\ StartMin <= EndMin) =>
        /\ Len(CandleEntries) = EndMin - StartMin + 1
        /\ \A i \in DOMAIN CandleEntries :
              CandleEntries[i].bucket = TimeStr(StartMin + i - 1)

(***************************************************************************)
(* C2 as amended.  Playback emits (builds and hands to the fan-out, even   *)
(* when no subscriber is left) exactly one candle_update per minute bucket *)
(* from startTime to endTime inclusive for which the candle table holds    *)
(* rows, in strictly ascending bucket order, each with one packet per row  *)
(* of its bucket; a bucket without rows gets no candle_update.             *)
(***************************************************************************)
C2_OnePerBucketWithRows ==
    /\ \A i \in DOMAIN CandleEntries :
          /\ CandleEntries[i].bucket \in DOMAIN candle_data
          /\ ParseTime(CandleEntries[i].bucket) \in StartMin .. EndMin
          /\ Len(CandleEntries[i].msg.data) = Len(candle_data[CandleEntries[i].bucket])
          /\ \A j \in DOMAIN CandleEntries :
                i < j => ParseTime(CandleEntries[i].bucket)
                            < ParseTime(CandleEntries[j].bucket)
    /\ \A b \in DoneBuckets :
          b \in DOMAIN candle_data => \E i \in DOMAIN CandleEntries :
                                         CandleEntries[i].bucket = b

C2_Witness ==
    /\ pc = "COMPLETED"
    /\ EndMin - StartMin = NumBuckets - 1
    /\ Len(CandleEntries) = NumBuckets - 1

(***************************************************************************)
(* C3.  As claimed: within each bucket the engine emits one candle_update  *)
(* first, followed by one option_chain and one pcr_update for each of      *)
(* NIFTY and BANKNIFTY, all before any message of the next bucket.         *)
(***************************************************************************)
BucketsInOrder ==
    \A i, j \in DOMAIN log :
        i < j => ParseTime(log[i].bucket) <= ParseTime(log[j].bucket)

CountTag(es, t) == Cardinality({i \in DOMAIN es : Tag(es[i]) = t})

ExpectedTags(b) ==
    (IF b \in DOMAIN candle_data THEN << <<"candle_update", "all">> >> ELSE << >>)
    \o SelectSeq([k \in DOMAIN IndexSymbols |-> <<"option_chain", IndexSymbols[k]>>],
                 LAMBDA t : get_latest_chain(option_chain_details, t[2]) # {})
    \o [k \in DOMAIN IndexSymbols |-> <<"pcr_update", IndexSymbols[k]>>]

AtOrBefore(rows, sym, b) ==
    {r \in rows : /\ r.symbol = sym
                  /\ ~StampLess(TargetDate, b, r.date, r.timestamp)}

LatestOf(rows) ==
    CHOOSE r \in rows : \A q \in rows : ~StampLess(r.date, r.timestamp, q.date, q.timestamp)

C4_CarryForward ==
    \A i \in DOMAIN log :
        LET e == log[i]
            priorAgg == AtOrBefore(option_aggregates, e.msg.symbol, e.bucket)
            priorDet == AtOrBefore(option_chain_details, e.msg.symbol, e.bucket)
        IN /\ e.msg.type = "pcr_update" /\ priorAgg # {}
                => e.msg.pcr = LatestOf(priorAgg).pcr
           /\ e.msg.type = "option_chain"
                => /\ priorDet # {}
                   /\ \A d \in e.msg.data : \E r \in priorDet :
                         /\ r.timestamp = LatestOf(priorDet).timestamp
                         /\ r.strike = d.strike /\ r.put_oi = d.put_oi

(***************************************************************************)
(* C5.  Message shape is identical between live and replay: a message of   *)
(* the replay engine has the top-level keys and the form of symbol         *)
(* identifier of the live bridge's message of the same type.               *)
(***************************************************************************)
C5_SameShape ==
    \A i \in DOMAIN log :
        LET m == log[i].msg
        IN /\ m.type = "candle_update" => DOMAIN m = DOMAIN LiveCandleMsg(m.data)
           /\ m.type = "option_chain" =>
                 /\ DOMAIN m = DOMAIN LiveOptionChainMsg(m.symbol, 0, m.data)
                 /\ m.symbol = LiveOptionChainMsg(m.symbol, 0, m.data).symbol

(***************************************************************************)
(* C6.  Fan-out isolation in the live bridge: in any tick, if the send to  *)
(* one subscriber fails, every other subscriber connected at fan-out time  *)
(* (with an open connection) still receives that tick's message, and no    *)
(* periodic task is ended by an exception: each goes on to its next tick.  *)
(***************************************************************************)
C6_FanOutIsolation ==
    /\ Alive
    /\ sent # None => {c \in clients : conn[c] = "open"} \subseteq sent.delivered

C6_Witness ==
    /\ sent # None
    /\ sent.task \in {"candles", "breadth"}
    /\ sent.failed # {}
    /\ sent.delivered # {}
    /\ ENABLED broadcast

(***************************************************************************)
(* C7.  As claimed: whenever a send to a subscriber fails during a         *)
(* fan-out, that subscriber is removed from the active subscriber set, so  *)
(* that after the fan-out no subscriber whose send failed is in the set.   *)
(***************************************************************************)
C7_FailedSendRemoves == sent # None => sent.failed \cap clients = {}

(***************************************************************************)
(* C7 as amended.  A send that fails during a fan-out is swallowed and all *)
(* other sends of that tick proceed; the fan-out leaves the subscriber set *)
(* as it is, so the subscriber whose send failed stays a send target.  The *)
(* set holds exactly the subscribers whose connection handler has not      *)
(* ended: a subscriber is removed by the finally block of its handler,     *)
(* when the closed connection ends the handler's receive loop.             *)
(***************************************************************************)
C7_RemovedByHandler ==
    /\ clients = {c \in Clients : conn[c] # "none"}
    /\ sent # None => /\ sent.targets = clients
                      /\ sent.delivered = sent.targets \ sent.failed

C7_Witness ==
    /\ sent # None
    /\ sent.failed # {}
    /\ sent.failed \subseteq clients
    /\ sent.targets \ sent.failed # {}

(***************************************************************************)
(* C8.  As claimed: every periodic task, on each tick in which it obtains  *)
(* data, builds a message of its own type and fans it out to every         *)
(* currently connected subscriber; in particular a PCR tick that obtains a *)
(* ratio while a subscriber is connected sends a pcr_update message to all *)
(* subscribers.                                                            *)
(***************************************************************************)
OwnType(t) ==
    IF t = "candles" THEN "candle_update"
    ELSE IF t = "breadth" THEN "market_breadth"
    ELSE IF t = "option_chain" THEN "option_chain"
    ELSE "pcr_update"

C8_EveryTaskFansOut ==
    [][/\ sent' # None => /\ sent'.targets = clients
                          /\ sent'.msg.type = OwnType(sent'.task)
       /\ (pcr_data' # pcr_data /\ clients # {}) =>
             /\ sent' # None
             /\ sent'.msg.type = "pcr_update"
             /\ sent'.targets = clients]_vars

(***************************************************************************)
(* Reading a fetch_candles call.                                           *)
(***************************************************************************)
ZeroPacket(p) ==
    /\ p["1m"].open = 0 /\ p["1m"].high = 0 /\ p["1m"].low = 0
    /\ p["1m"].close = 0 /\ p["1m"].volume = 0

AllZeroPayload(r) ==
    ~r.raised /\ r.data # << >> /\ \A i \in DOMAIN r.data : ZeroPacket(r.data[i])

ValidPayload(r) == ~r.raised /\ r.data # << >> /\ ~AllZeroPayload(r)

\* what the primary tier sent back was non-empty and all zero
PrimaryAllZero(in) ==
    /\ in.avail /\ in.setup = "ok"
    /\ \A i \in DOMAIN in.upstox : in.upstox[i].kind # "keyraise" /\ in.upstox[i] # GoodCandles
    /\ \E i \in DOMAIN in.upstox : in.upstox[i] = ZeroCandles

\* the primary tier ended in an exception: it escaped the per-symbol guard
\* (client setup, key lookup), or every symbol's API call raised
PrimaryRaised(in) ==
    /\ in.avail
    /\ \/ in.setup = "raise"
       \/ \E i \in DOMAIN in.upstox :
             /\ in.upstox[i].kind = "keyraise"
             /\ \A j \in 1 .. (i - 1) : in.upstox[j].kind # "keyraise"
       \/ \A i \in DOMAIN in.upstox : in.upstox[i].kind = "raise"

(***************************************************************************)
(* C9.  When tier 1 returns a non-empty payload whose quantities are all   *)
(* zero and the next tier returns a valid non-zero payload, fetch_candles  *)
(* returns the next tier's result; an all-zero payload is never returned.  *)
(***************************************************************************)
C9_AllZeroRejected ==
    fc_pc = "done" =>
        /\ ~AllZeroPayload(fc_result)
        /\ (PrimaryAllZero(fc_in) /\ ValidPayload(FallbackTiers(fc_in, pcr_data)))
              => fc_result = FallbackTiers(fc_in, pcr_data)

(***************************************************************************)
(* C10.  An exception raised by tier 1 never propagates out of             *)
(* fetch_candles; the result is the same as if tier 1 had returned         *)
(* nothing: the result of falling back to tier 2 and onward.               *)
(***************************************************************************)
C10_Tier1ExceptionFallsBack ==
    fc_pc = "done" =>
        /\ ~fc_result.raised
        /\ PrimaryRaised(fc_in) =>
              /\ fc_result = FallbackTiers(fc_in, pcr_data)
              /\ fc_result = fetch_candles([fc_in EXCEPT !.avail = FALSE], pcr_data)

C10_Witness ==
    /\ fc_pc = "done"
    /\ PrimaryRaised(fc_in)
    /\ fc_in.upstox[1] = GoodCandles
    /\ fc_in.upstox[2].kind = "keyraise"
    /\ ValidPayload(fc_result)

(***************************************************************************)
(* C11.  The tiers are attempted in fixed priority order and the result is *)
(* that of the first tier returning a non-empty result; a tier that        *)
(* returns an empty result without raising counts as failed, so            *)
(* fetch_candles returns an empty list only if every tier failed or        *)
(* returned empty.                                                         *)
(***************************************************************************)
\* what each tier answers when it is asked, in priority order
TierResults(in, pcrs) ==
    << IF in.avail THEN fetch_candles_upstox_primary(in, pcrs) ELSE Raised,
       fetch_candles_logic(TRUE, in.tv, pcrs),
       fetch_candles_logic(FALSE, in.tv, pcrs),
       fetch_candles_yahoo(in, pcrs) >>

TierServes(r) == ~r.raised /\ r.data # << >>

C11_FirstServingTier ==
    fc_pc = "done" =>
        LET tiers == TierResults(fc_in, pcr_data)
            serving == {i \in DOMAIN tiers : TierServes(tiers[i])}
        IN IF serving = {} THEN fc_result = Ok(<< >>)
           ELSE fc_result = tiers[CHOOSE i \in serving : \A j \in serving : i <= j]

(***************************************************************************)
(* Reading a fetch_live_snapshot call.                                     *)
(***************************************************************************)
\* the chain the store held for the symbol when the call started
LastKnownChain == get_latest_chain(tk_prev.dets, StudySymbol)

\* the broker tier of the call and the state it leaves
UpstoxTier == fetch_live_snapshot_upstox(tk_prev, StudySymbol, tk_in, now)

\* the broker tier gives no chain
UpstoxFails == UpstoxTier.ret = {}

\* the stock id the fallback works with: 0 when neither the cache nor the
\* stock search gives one
FallbackStockId == get_stock_id_for_symbol(UpstoxTier.S, StudySymbol, tk_in.stock2)

\* the expiry the fallback works with: the cached one unless it is past,
\* else the answer of the expiry list; 0 when there is none
FallbackExpiry ==
    LET cached == FallbackStockId.S.exp[StudySymbol]
    IN IF cached # 0 /\ ~(TargetDate > cached) THEN cached ELSE tk_in.expiry2

StockLookupFails == UpstoxFails /\ FallbackStockId.val = 0

ExpiryLookupFails == UpstoxFails /\ FallbackStockId.val # 0 /\ FallbackExpiry = 0

\* the lookups succeed and Trendlyne does not answer
ProvidersFail ==
    /\ UpstoxFails /\ FallbackStockId.val # 0 /\ FallbackExpiry # 0
    /\ tk_in.trendlyne.kind # "ok"

(***************************************************************************)
(* C12.  When every option-chain tier fails for a symbol (the broker chain *)
(* fails and the secondary provider cannot be queried, including when its  *)
(* stock-id or expiry lookup fails), fetch_live_snapshot returns the last  *)
(* known chain the store holds for the symbol, provided it holds one.      *)
(***************************************************************************)
C12_LastKnownOnTotalFailure ==
    (/\ tk_pc = "done"
     /\ StockLookupFails \/ ExpiryLookupFails \/ ProvidersFail
     /\ LastKnownChain # {})
        => tk_result = LastKnownChain

(***************************************************************************)
(* Reading a pass of update_pcr.                                           *)
(***************************************************************************)
\* the NSE tier gives no ratio for the i-th symbol: it raises, its payload
\* is not valid, or the call open interest is not positive
NseTierFails(i) ==
    ~(tk_in.answers[i].kind = "oi" /\ tk_in.answers[i].ce_oi > 0)

\* the store tier gives no ratio for the i-th symbol: the store module is
\* not there, the read raises, or the table holds no row of the symbol
StoreTierFails(i) ==
    \/ ~TrendlyneDB
    \/ tk_in.dbRaises
    \/ get_latest_aggregates(option_aggregates, IndexSymbols[i]) = None

\* the ratios the store holds for the i-th symbol
StoredRatios(i) == {r.pcr : r \in {q \in option_aggregates : q.symbol = IndexSymbols[i]}}

(***************************************************************************)
(* C13.  If in a pass of update_pcr every tier fails for a symbol, the     *)
(* cached ratio of the symbol after the pass is its last known value (the  *)
(* value before the pass, or a value of the store); it is never reset to a *)
(* default.                                                                *)
(***************************************************************************)
C13_PcrKeptOnTotalFailure ==
    tk_pc = "done" =>
        \A i \in DOMAIN IndexSymbols :
            (NseTierFails(i) /\ StoreTierFails(i)) =>
                tk_result[IndexSymbols[i]] \in {tk_prev[IndexSymbols[i]]} \cup StoredRatios(i)

(***************************************************************************)
(* C15.  Within one pass over the symbols, an exception while one symbol   *)
(* is processed (in a provider call or in the store fallback read) does    *)
(* not keep the remaining symbols from being processed in the same pass:   *)
(* in update_pcr, every symbol the NSE client answers for with a positive  *)
(* call open interest gets its live ratio, whatever happened to the        *)
(* symbols before it.                                                      *)
(***************************************************************************)
C15_SymbolIsolation ==
    tk_pc = "done" =>
        \A i \in DOMAIN IndexSymbols :
            ~NseTierFails(i) =>
                tk_result[IndexSymbols[i]] =
                    Round2(tk_in.answers[i].pe_oi, tk_in.answers[i].ce_oi)

(***************************************************************************)
(* Reading a pass of the candle task.                                      *)
(***************************************************************************)
\* every candle tier raises or is unavailable: Upstox is not set up or its
\* tier ends in an exception, the public scanner raises (the premium call
\* always does), and the Yahoo module is missing or raises for every symbol
AllTiersFail(in) ==
    /\ ~in.avail \/ PrimaryRaised(in)
    /\ fetch_candles_logic(TRUE, in.tv, pcr_data).raised
    /\ in.tv.kind = "raise"
    /\ ~in.yahooAvail \/ \A i \in DOMAIN in.yahoo : in.yahoo[i].kind = "raise"

(***************************************************************************)
(* C14.  When every candle tier raises or is unavailable, fetch_candles    *)
(* returns an empty list without raising, no candle_update is sent in that *)
(* pass, and the candle task goes on to its next pass.                     *)
(***************************************************************************)
C14_CandleTotalFailure ==
    /\ []((fc_pc = "done" /\ AllTiersFail(fc_in)) => fc_result = Ok(<< >>))
    /\ [][(fc_pc = "done" /\ AllTiersFail(fc_in)) =>
             /\ sent' = None
             /\ task'["candles"] = "running"
             /\ fc_pc' = "idle"]_vars

C14_Witness ==
    /\ fc_pc = "done"
    /\ AllTiersFail(fc_in)
    /\ fc_in.avail /\ fc_in.yahooAvail
    /\ clients # {}
    /\ fc_result = Ok(<< >>)

(***************************************************************************)
(* C16.  Every candle or option-chain value that is sent in a candle_update *)
(* or option_chain message is in the store when it is sent: each candle of *)
(* the message has a row of its symbol and close in the candle table, and  *)
(* each strike of a chain has a row with its values in the details table.  *)
(***************************************************************************)
C16_PersistBeforeBroadcast ==
    sent # None =>
        /\ sent.msg.type = "candle_update" =>
              \A i \in DOMAIN sent.msg.data :
                 \E r \in backtest_candles :
                    /\ r.symbol = sent.msg.data[i]["symbol"]
                    /\ r.close = sent.msg.data[i]["1m"].close
        /\ sent.msg.type = "option_chain" =>
              \A d \in sent.msg.data :
                 \E r \in option_chain_details :
                    /\ r.strike = d.strike
                    /\ r.call_oi = d.call_oi /\ r.put_oi = d.put_oi
                    /\ r.call_oi_chg = d.call_oi_chg /\ r.put_oi_chg = d.put_oi_chg

(***************************************************************************)
(* Reading the broker tier of a fetch_live_snapshot call.                  *)
(***************************************************************************)
\* the strike rows the broker answered with, as the tier parses them
UpstoxFetchedChain ==
    {[strike |-> tk_in.upstox.rows[i].strike,
      call_oi |-> tk_in.upstox.rows[i].c_oi,
      put_oi |-> tk_in.upstox.rows[i].p_oi,
      call_oi_chg |-> tk_in.upstox.rows[i].c_oi - tk_in.upstox.rows[i].c_prev,
      put_oi_chg |-> tk_in.upstox.rows[i].p_oi - tk_in.upstox.rows[i].p_prev] :
        i \in DOMAIN tk_in.upstox.rows}

\* the broker tier fetched a chain it accepts: it is set up, it had an
\* expiry to ask with, and the answer holds open interest
UpstoxAcquired ==
    /\ tk_in.avail
    /\ UpstoxTier.S.exp[StudySymbol] # 0
    /\ tk_in.upstox.kind = "chain"
    /\ \E i \in DOMAIN tk_in.upstox.rows :
          tk_in.upstox.rows[i].c_oi > 0 \/ tk_in.upstox.rows[i].p_oi > 0

(***************************************************************************)
(* C17.  When the write of a freshly fetched option snapshot fails, the    *)
(* tables keep what they held (the batch is rolled back) and the chain     *)
(* returned for the broadcast is the just-fetched one: not an older stored *)
(* chain and not nothing.                                                  *)
(***************************************************************************)
C17_UnpersistedStillBroadcast ==
    (tk_pc = "done" /\ UpstoxAcquired /\ tk_in.saveFails) =>
        /\ option_aggregates = tk_prev.aggs
        /\ option_chain_details = tk_prev.dets
        /\ tk_result = UpstoxFetchedChain

(***************************************************************************)
(* C19.  An option-chain response whose total call and total put open      *)
(* interest are both zero (one without strikes included) is not accepted   *)
(* by any option tier: no row with call_oi = 0 and put_oi = 0 is ever      *)
(* written to the option aggregate table.                                  *)
(***************************************************************************)
C19_NoAllZeroAggregate ==
    \A r \in option_aggregates : ~(r.call_oi = 0 /\ r.put_oi = 0)

(***************************************************************************)
(* C18.  Whenever the primary breadth provider fails in a pass, by raising *)
(* or by answering with a payload that is not valid (empty, or without     *)
(* 'advance'), the secondary tier is attempted in the same pass: when the  *)
(* screener answers with its rows, the pass has a breadth message built    *)
(* from them.                                                              *)
(***************************************************************************)
C18_BreadthFallback ==
    (tk_pc = "done" /\ tk_in.nse.kind # "counts" /\ tk_in.tv.kind = "rows") =>
        /\ tk_result # None
        /\ tk_result.data.sectors = "TV_FALLBACK"

(***************************************************************************)
(* Reading a write of the store.                                           *)
(***************************************************************************)
\* no two rows of a table share the primary key
KeysUnique ==
    /\ \A r, q \in option_aggregates :
          (r.symbol = q.symbol /\ r.date = q.date /\ r.timestamp = q.timestamp) => r = q
    /\ \A r, q \in option_chain_details :
          (r.symbol = q.symbol /\ r.date = q.date /\ r.timestamp = q.timestamp
           /\ r.strike = q.strike) => r = q
    /\ \A r, q \in market_breadth :
          (r.date = q.date /\ r.timestamp = q.timestamp) => r = q
    /\ \A r, q \in backtest_candles :
          (r.symbol = q.symbol /\ r.date = q.date /\ r.timestamp = q.timestamp) => r = q

\* the tables hold, under the keys of the last write, the values it was
\* called with
LastWriteHeld ==
    /\ tk_in.op = "save_snapshot" =>
          /\ \E r \in option_aggregates :
                /\ r.symbol = tk_in.symbol /\ r.date = tk_in.trading_date
                /\ r.timestamp = tk_in.timestamp
                /\ r.call_oi = tk_in.aggregates.call_oi
                /\ r.put_oi = tk_in.aggregates.put_oi
                /\ r.pcr = tk_in.aggregates.pcr
          /\ \A d \in tk_in.details :
                \E r \in option_chain_details :
                   /\ r.symbol = tk_in.symbol /\ r.date = tk_in.trading_date
                   /\ r.timestamp = tk_in.timestamp /\ r.strike = d.strike
                   /\ r.call_oi = d.call_oi /\ r.put_oi = d.put_oi
                   /\ r.call_oi_chg = d.call_oi_chg /\ r.put_oi_chg = d.put_oi_chg
    /\ tk_in.op = "save_breadth" =>
          \E r \in market_breadth :
             /\ r.date = tk_in.trading_date /\ r.timestamp = tk_in.timestamp
             /\ r.advances = tk_in.data.advances /\ r.declines = tk_in.data.declines
             /\ r.unchanged = tk_in.data.unchanged /\ r.total = tk_in.data.total
    /\ tk_in.op = "collect_upstox_candles" =>
          \A i \in DOMAIN CollectSymbols :
             tk_in.answers[i].kind = "candles" =>
                \A j \in DOMAIN tk_in.answers[i].candles :
                   \E r \in backtest_candles :
                      /\ r.symbol = CollectSymbols[i] /\ r.date = TargetDate
                      /\ r.timestamp = TimeStr(tk_in.answers[i].candles[j].ts.minute)
                      /\ r.close = tk_in.answers[i].candles[j].close
                      /\ r.open = tk_in.answers[i].candles[j].open

(***************************************************************************)
(* C20.  After any sequence of writes the store holds at most one row per  *)
(* key (symbol, date, time bucket; plus strike for the option details),    *)
(* and a write under a key that is already there leaves exactly one row of *)
(* that key, holding the values of the second write.                       *)
(***************************************************************************)
C20_IdempotentUpsert ==
    /\ KeysUnique
    /\ (tk_pc = "done" /\ ~tk_in.fails) => LastWriteHeld

\* a snapshot is written over a row of its key that held other values
C20_Witness ==
    /\ tk_pc = "done"
    /\ tk_in.op = "save_snapshot"
    /\ ~tk_in.fails
    /\ \E r \in tk_prev.aggs :
          /\ r.symbol = tk_in.symbol /\ r.date = tk_in.trading_date
          /\ r.timestamp = tk_in.timestamp
          /\ r.call_oi # tk_in.aggregates.call_oi
    /\ \E r \in tk_prev.candles : r.symbol = "RELIANCE"

(***************************************************************************)
(* C21.  A save_snapshot call commits the aggregate row and every detail   *)
(* row of its batch, or none of them: when the write of a strike fails, no *)
(* row of the call (the aggregate included) is in the tables afterwards,   *)
(* which hold what they held before the call.                              *)
(***************************************************************************)
C21_TransactionalSnapshot ==
    (tk_pc = "done" /\ tk_in.op = "save_snapshot") =>
        IF tk_in.fails
        THEN /\ option_aggregates = tk_prev.aggs
             /\ option_chain_details = tk_prev.dets
        ELSE LastWriteHeld

\* the write of the second strike of a batch failed after the aggregate and
\* the first strike had been written
C21_Witness ==
    /\ tk_pc = "done"
    /\ tk_in.op = "save_snapshot"
    /\ tk_in.fails
    /\ Cardinality(tk_in.details) > 1
    /\ \A r \in tk_prev.aggs : r.symbol # tk_in.symbol
    /\ tk_prev.aggs # {}

(***************************************************************************)
(* C22.  get_latest_aggregates, get_latest_chain and get_latest_breadth    *)
(* return the rows stored under the greatest (date, time bucket) (of the   *)
(* symbol asked for), and None or the empty list when there is no row.     *)
(***************************************************************************)
RowsAsked ==
    IF tk_in.op = "get_latest_aggregates"
    THEN {r \in option_aggregates : r.symbol = tk_in.symbol}
    ELSE IF tk_in.op = "get_latest_chain"
    THEN {r \in option_chain_details : r.symbol = tk_in.symbol}
    ELSE market_breadth

\* the rows asked for that no other row asked for is later than
NewestAsked ==
    {r \in RowsAsked :
        \A q \in RowsAsked : EpochMs(q.date, q.timestamp) <= EpochMs(r.date, r.timestamp)}

C22_LatestReads ==
    (tk_pc = "done" /\ tk_in.op \in {"get_latest_aggregates", "get_latest_chain", "get_latest_breadth"}) =>
        IF tk_in.op = "get_latest_chain"
        THEN tk_result = {[strike |-> r.strike, call_oi |-> r.call_oi,
                           put_oi |-> r.put_oi, call_oi_chg |-> r.call_oi_chg,
                           put_oi_chg |-> r.put_oi_chg] : r \in NewestAsked}
        ELSE IF RowsAsked = {} THEN tk_result = None
        ELSE tk_result \in NewestAsked

\* a chain is asked for a symbol that has a snapshot late on the day before
\* and one early on the day
C22_Witness ==
    /\ tk_pc = "done"
    /\ tk_in.op = "get_latest_chain"
    /\ \E r, q \in RowsAsked : r.date < q.date /\ ParseTime(q.timestamp) < ParseTime(r.timestamp)
    /\ tk_result # {}

(***************************************************************************)
(* C23.  Every put-call ratio that is stored is round(put OI / call OI, 2) *)
(* of the open interest stored with it when the call open interest is      *)
(* positive, and 1.0 otherwise; the division is never made with a call     *)
(* open interest that is not positive.  A pass of update_pcr caches        *)
(* round(put OI / call OI, 2) for a reading with positive call open        *)
(* interest; for any other reading it caches the ratio of the latest       *)
(* stored snapshot of the symbol, keeps the cached ratio when the store    *)
(* has none (or the pass was left), and caches 1.0 only when no store is   *)
(* loaded.                                                                 *)
(***************************************************************************)
IsPcrPass == tk_pc = "done" /\ "answers" \in DOMAIN tk_in

PositiveReading(a) == a.kind = "oi" /\ a.ce_oi > 0

\* the pass was left at symbol i or before it
PassLeftBy(i) ==
    TrendlyneDB /\ tk_in.dbRaises /\ \E j \in 1 .. i : ~PositiveReading(tk_in.answers[j])

StoredRatiosFollowFormula ==
    /\ \A r \in option_aggregates :
          r.pcr = IF r.call_oi > 0 THEN Round2(r.put_oi, r.call_oi) ELSE DefaultPcr
    /\ \A r \in pcr_history : r.call_oi > 0 /\ r.pcr = Round2(r.put_oi, r.call_oi)

C23_RatioFormula ==
    /\ StoredRatiosFollowFormula
    /\ IsPcrPass =>
          \A i \in 1 .. Len(IndexSymbols) :
             LET sym == IndexSymbols[i]
                 a == tk_in.answers[i]
                 agg == get_latest_aggregates(option_aggregates, sym)
             IN tk_result[sym] =
                   IF PassLeftBy(i) THEN tk_prev[sym]
                   ELSE IF PositiveReading(a) THEN Round2(a.pe_oi, a.ce_oi)
                   ELSE IF ~TrendlyneDB THEN DefaultPcr
                   ELSE IF agg # None THEN agg.pcr
                   ELSE tk_prev[sym]

\* a snapshot without call open interest is stored, and a pass whose
\* BANKNIFTY reading has no call open interest has cached the ratio of the
\* stored BANKNIFTY snapshot
C23_Witness ==
    /\ IsPcrPass
    /\ \E r \in option_aggregates : r.call_oi = 0 /\ r.put_oi > 0 /\ r.pcr = DefaultPcr
    /\ tk_in.answers[2].kind = "oi"
    /\ tk_in.answers[2].ce_oi = 0
    /\ tk_result["BANKNIFTY"] # DefaultPcr
    /\ tk_result["BANKNIFTY"] # tk_prev["BANKNIFTY"]

\* as stated: 1.0 whenever the call open interest is not positive, the
\* readings of the live PCR task included
C23_UnitRatioWithoutCallOi ==
    /\ StoredRatiosFollowFormula
    /\ (IsPcrPass /\ ~tk_in.dbRaises) =>
          \A i \in 1 .. Len(IndexSymbols) :
             LET a == tk_in.answers[i]
             IN a.kind = "oi" =>
                   tk_result[IndexSymbols[i]] =
                       IF a.ce_oi > 0 THEN Round2(a.pe_oi, a.ce_oi) ELSE DefaultPcr

(***************************************************************************)
(* C24.  After a successful initialization, get_upstox_key of              *)
(* get_ticker_from_key(k) is k for every instrument key k kept from the    *)
(* catalog, also when two rows of the catalog have the same upper-cased    *)
(* trading symbol.                                                         *)
(***************************************************************************)
Resolve(sym) == get_upstox_key(ResolverState, sym, CHOOSE a \in DownloadAnswers : ~a.ok).value
ReverseResolve(key) ==
    get_ticker_from_key(ResolverState, key, CHOOSE a \in DownloadAnswers : ~a.ok).value

C24_RoundTrip ==
    initialized => \A k \in DOMAIN reverse_mappings : Resolve(ReverseResolve(k)) = k

(***************************************************************************)
(* C25.  After a successful initialization no two symbols of the forward   *)
(* mapping have the same instrument key, and get_ticker_from_key of        *)
(* get_upstox_key(s) is s for every symbol s of it, the index aliases      *)
(* included: the reverse lookup of the Nifty 50 key gives NIFTY.           *)
(***************************************************************************)
C25_ForwardReverse ==
    initialized =>
        /\ \A s1, s2 \in DOMAIN mappings : mappings[s1] = mappings[s2] => s1 = s2
        /\ \A sym \in DOMAIN mappings : ReverseResolve(Resolve(sym)) = sym
        /\ IndexKey(Nifty50) \in DOMAIN reverse_mappings =>
              ReverseResolve(IndexKey(Nifty50)) = NIFTY

(***************************************************************************)
(* C26.  When the download fails and the cache file gives no catalog (it   *)
(* does not exist, or does not parse), initialize and get_upstox_key do    *)
(* not raise: get_upstox_key returns None, and the resolver stays          *)
(* uninitialized, so that a later call tries again.                        *)
(***************************************************************************)
BothSourcesFail ==
    /\ tk_pc = "done"
    /\ tk_in.op \in {"initialize", "get_upstox_key"}
    /\ ~tk_prev.initialized
    /\ ~tk_in.answer.ok
    /\ tk_prev.cache_file.kind # "catalog"

C26_NoRaiseOnTotalFailure ==
    BothSourcesFail =>
        /\ ~tk_result.raised
        /\ tk_result.value = NotFound
        /\ ~initialized

(***************************************************************************)
(* C27.  initialize tries the download first and reads the cache file only *)
(* when the download failed; the copy it then reads is a catalog that was  *)
(* cached by a successful download, from which the initialization          *)
(* succeeds.                                                               *)
(***************************************************************************)
C27_CacheIsLastGoodCopy ==
    (tk_pc = "done" /\ tk_in.op \in {"initialize", "get_upstox_key", "get_ticker_from_key"} /\ tk_result.cacheRead) =>
        /\ tk_result.downloaded
        /\ ~tk_in.answer.ok
        /\ tk_prev.cache_file.kind = "catalog"
        /\ initialized

(***************************************************************************)
(* C28.  With callers of initialize on an uninitialized resolver, at       *)
(* most one of them is past the guard of the flag at a time, and when all  *)
(* are back the mappings are those of a single load.                       *)
(***************************************************************************)
LoadsInFlight == {c \in Callers : im_pc[c] # "idle"}

SingleLoadResult ==
    (initialized /\ LoadsInFlight = {}) =>
        \E c \in Contents :
           /\ c.kind = "catalog"
           /\ mappings = FillRows(c.rows, 1, EmptyDict, EmptyDict).mappings
           /\ reverse_mappings = FillRows(c.rows, 1, EmptyDict, EmptyDict).reverse_mappings

C28_SingleLoadInFlight ==
    /\ Cardinality(LoadsInFlight) <= 1
    /\ SingleLoadResult

(***************************************************************************)
(* C29.  An initialize call made when the resolver is initialized makes no *)
(* download, does not read the cache file and leaves both mappings and the *)
(* cache file as they were; a call made when it is not initialized makes   *)
(* the load.                                                               *)
(***************************************************************************)
C29_IdempotentInitialize ==
    (tk_pc = "done" /\ tk_in.op = "initialize") =>
        IF tk_prev.initialized
        THEN /\ ~tk_result.downloaded
             /\ ~tk_result.cacheRead
             /\ ~tk_result.raised
             /\ ResolverState = tk_prev
        ELSE tk_result.downloaded

\* initialize was called on a resolver initialized from the plain catalog
\* while the endpoint served the other catalog
C29_Witness ==
    /\ tk_pc = "done"
    /\ tk_in.op = "initialize"
    /\ tk_prev.initialized
    /\ tk_in.answer.ok
    /\ tk_in.answer.content.rows = CatalogShared
    /\ tk_prev.cache_file.rows = CatalogPlain
    /\ mappings[ITC] = EquityKey(<<"1">>)

(***************************************************************************)
(* C30.  get_upstox_key gives for a symbol what it gives for the same      *)
(* symbol in any other letter case, on an initialized resolver and on one  *)
(* that is not.                                                            *)
(***************************************************************************)
SameLetters(str1, str2) ==
    /\ Len(str1) = Len(str2)
    /\ \A i \in DOMAIN str1 : UpperChar(str1[i]) = UpperChar(str2[i])

C30_CaseInsensitive ==
    (tk_pc = "done" /\ tk_in.op = "get_upstox_key") =>
        \A other \in SymbolInputs :
           SameLetters(other, tk_in.arg) =>
              LET r == get_upstox_key(tk_prev, other, tk_in.answer)
              IN /\ r.value = tk_result.value
                 /\ r.raised = tk_result.raised

\* the key of ITC was returned for 'itc' by an initialized resolver
C30_Witness ==
    /\ tk_pc = "done"
    /\ tk_in.op = "get_upstox_key"
    /\ tk_in.arg = <<"i", "t", "c">>
    /\ tk_prev.initialized
    /\ tk_result.value = EquityKey(<<"1">>)

(***************************************************************************)
(* C31.  After each bucket the replay sleeps exactly once, for 60 / speed  *)
(* seconds, before the next bucket when the speed is below 999; at speed   *)
(* 999 it never sleeps.                                                    *)
(***************************************************************************)
\* the buckets replay_loop has gone through and slept after
BucketsSleptAfter ==
    IF pc \in {"LOADED", "WAITING", "STARTING"} THEN 0
    ELSE IF pc \in {"CANDLES", "CHAIN", "PCR", "ADVANCE"}
    THEN current_dt - ParseTime(start_time)
    ELSE IF pc = "SLEEP" THEN current_dt - ParseTime(start_time) - 1
    ELSE IF current_dt > ParseTime(start_time) THEN current_dt - ParseTime(start_time)
    ELSE 0

C31_ReplayPacing ==
    IF speed = InstantSpeed THEN sleeps = << >>
    ELSE /\ Len(sleeps) = BucketsSleptAfter
         /\ \A i \in DOMAIN sleeps :
               /\ sleeps[i].after = TimeStr(ParseTime(start_time) + i - 1)
               /\ sleeps[i].ms * speed = 60000

\* the third bucket is being replayed at speed 5 after two sleeps of 12 s
C31_Witness ==
    /\ speed = NormalSpeed
    /\ pc = "CANDLES"
    /\ Len(sleeps) = 2
    /\ sleeps[2].ms = 12000

(***************************************************************************)
(* C32.  With start_time not later than end_time the replay is COMPLETED   *)
(* only after the bucket of end_time was emitted (it is the last one       *)
(* emitted); with start_time later than end_time it is COMPLETED with      *)
(* nothing emitted.  Once COMPLETED it stays so and emits nothing more,    *)
(* and clients can still be registered and unregistered.                   *)
(***************************************************************************)
EndBucketEmitted == \E i \in DOMAIN log : log[i].bucket = end_time

CompletedAfterEndBucket ==
    pc = "COMPLETED" =>
        /\ IF ParseTime(start_time) <= ParseTime(end_time)
           THEN EndBucketEmitted /\ log[Len(log)].bucket = end_time
           ELSE log = << >>
        /\ \A c \in DOMAIN conn : conn[c] = "none" => ENABLED register_client(c)
        /\ \A c \in DOMAIN conn : conn[c] = "closed" => ENABLED unregister_client(c)

C32_ReplayCompletion ==
    /\ [](CompletedAfterEndBucket)
    /\ [][pc = "COMPLETED" => (pc' = "COMPLETED" /\ log' = log)]_vars

\* the replay of two or more buckets is completed and its client has left
C32_Witness ==
    /\ pc = "COMPLETED"
    /\ ParseTime(start_time) < ParseTime(end_time)
    /\ clients = {}
    /\ \A c \in DOMAIN conn : conn[c] = "none"
    /\ log # << >>

\* as stated: COMPLETED is reached only after the bucket of end_time was emitted
C32_CompletedOnlyAfterEndBucket == pc = "COMPLETED" => EndBucketEmitted

(***************************************************************************)
(* C33.  In every interleaving of the four tasks and the handlers, a step  *)
(* that changes pcr_data is a pass of update_pcr: the candle, option chain *)
(* and breadth tasks and the handlers leave it as it is.                   *)
(***************************************************************************)
C33_SingleWriterPcr == [][pcr_data' # pcr_data => update_pcr]_vars

\* a candle message was sent after the PCR task had cached a ratio
C33_Witness ==
    /\ sent # None
    /\ sent.task = "candles"
    /\ pcr_data["NIFTY"] # DefaultPcr
    /\ sent.targets # {}

(***************************************************************************)
(* C34.  Within the option chain task a fetch starts only when the chain   *)
(* of the fetch before it has gone through its fan-out: the task goes      *)
(* from its fetch to its fan-out and from there to the next fetch or the   *)
(* sleep, while the other tasks and the handlers take their steps in       *)
(* between.                                                                *)
(***************************************************************************)
NoChainAwaitsFanOut == oc_pc \in {"sleep", "fetch"} => oc_chain = {}

C34_TickSerialization ==
    /\ [](NoChainAwaitsFanOut)
    /\ [][/\ (oc_pc = "fetch" /\ oc_pc' # "fetch") => oc_pc' = "send"
          /\ (oc_pc = "send" /\ oc_chain' # oc_chain) => OptionSend
          /\ (oc_pc = "sleep" /\ oc_pc' # "sleep") => (oc_pc' = "fetch" /\ oc_idx' = 1)]_vars

\* a candle tick went to a client between the fetch and the fan-out of the
\* option chain task
C34_Witness ==
    /\ oc_pc = "send"
    /\ oc_chain # {}
    /\ sent # None
    /\ sent.task = "candles"
    /\ sent.delivered # {}

(***************************************************************************)
(* C35.  The targets of a fan-out are exactly the clients of the set at    *)
(* the moment of the fan-out, each of them is sent the message once, and   *)
(* a client that connects later is sent nothing by its connection: the     *)
(* message of a tick is sent in the fan-out of that tick only.             *)
(***************************************************************************)
C35_AtMostOnceFreshSet ==
    /\ [](sent # None =>
             /\ sent.targets = clients
             /\ DOMAIN sent.sends = sent.targets
             /\ \A t \in sent.targets : sent.sends[t] = 1
             /\ sent.delivered \subseteq sent.targets)
    /\ [][clients' # clients => sent' = None]_vars

\* a message went to the one registered client while the other was not yet
\* connected
C35_Witness ==
    /\ sent # None
    /\ sent.targets = {"c1"}
    /\ sent.delivered = {"c1"}
    /\ conn["c2"] = "none"
    /\ ENABLED handler("c2")

(***************************************************************************)
(* C36.  After save_snapshot has committed a batch of strikes under a key  *)
(* (symbol, date, time bucket), the detail rows stored under that key are  *)
(* exactly the strikes of the batch: no strike of an earlier snapshot of   *)
(* the same key is left.                                                   *)
(***************************************************************************)
C36_OverwriteReplacesMinute ==
    (tk_pc = "done" /\ tk_in.op = "save_snapshot" /\ ~tk_in.fails) =>
        {r.strike : r \in {q \in option_chain_details :
                              /\ q.symbol = tk_in.symbol
                              /\ q.date = tk_in.trading_date
                              /\ q.timestamp = tk_in.timestamp}}
            = {d.strike : d \in tk_in.details}

(***************************************************************************)
(* C37.  Whenever the resolver is not initialized, also after an           *)
(* initialize whose parse of the catalog failed part-way, both mapping     *)
(* tables are empty, so that every lookup finds nothing until an           *)
(* initialization has succeeded.                                           *)
(***************************************************************************)
C37_NoPartialMapping ==
    ~initialized => (mappings = EmptyDict /\ reverse_mappings = EmptyDict)

(***************************************************************************)
(* C38.  Once playback has started its progress does not depend on the     *)
(* subscribers: in every position of the replay loop the loop's next step  *)
(* can be taken whatever the subscriber set is; the current bucket changes *)
(* only by the loop's own advance, by exactly one minute; a message built  *)
(* while the set is empty is sent to nobody; and every message is sent     *)
(* once, as the message of the current bucket, to the subscribers of that  *)
(* moment only, so that a late subscriber gets nothing of earlier buckets. *)
(***************************************************************************)
ReplayLoopStep ==
    LoopHead \/ broadcast_candles \/ broadcast_option_chain \/ broadcast_pcr
        \/ Advance \/ Sleep

C38_ProgressWithoutSubscribers ==
    /\ [](Playing => ENABLED ReplayLoopStep)
    /\ [][Playing =>
            /\ current_dt' # current_dt =>
                  (pc = "ADVANCE" /\ current_dt' = current_dt + 1)
            /\ (~ReplayLoopStep) =>
                  (pc' = pc /\ current_dt' = current_dt /\ current_time' = current_time
                     /\ log' = log /\ fanVars' = fanVars)
            /\ log' # log =>
                  /\ Len(log') = Len(log) + 1
                  /\ log'[Len(log')].bucket = TimeStr(current_dt)
                  /\ lastTargets' = clients
                  /\ lastDelivered' \subseteq clients
                  /\ clients = {} => lastDelivered' = {}]_vars

\* the only subscriber has gone, and the replay has emitted the messages of
\* a later bucket to nobody
C38_Witness ==
    /\ clients = {}
    /\ pc = "ADVANCE"
    /\ current_dt > ParseTime(start_time)
    /\ log # << >>
    /\ log[Len(log)].bucket = TimeStr(current_dt)
    /\ lastTargets = {}

(***************************************************************************)
(* C39.  Replay termination.  Under fair scheduling of the engine: if a    *)
(* subscriber is registered when the wait loop tests the subscriber set    *)
(* (in particular if a subscriber connects and stays), the engine reaches  *)
(* COMPLETED, after finitely many buckets and whatever the subscribers do  *)
(* from then on; when startTime is later than endTime it is COMPLETED      *)
(* without having emitted any message.  A subscriber that has come and     *)
(* gone between two tests of the wait loop does not start the playback.    *)
(***************************************************************************)
C39_ReplayTermination ==
    /\ (<>[](clients # {})) => <>(pc = "COMPLETED")
    /\ (pc = "STARTING") ~> (pc = "COMPLETED")
    /\ [](pc = "COMPLETED" /\ StartMin > EndMin => log = << >>)
    /\ [](Playing => (current_dt >= StartMin
                       /\ (current_dt > EndMin + 1 => current_dt = StartMin)))

\* the replay has completed over a window of more than one bucket although
\* the only subscriber had gone before the end
C39_Witness ==
    /\ pc = "COMPLETED"
    /\ everConnected
    /\ clients = {}
    /\ StartMin < EndMin
    /\ Len(log) > 2

\* C39 as stated: it is enough that a subscriber connects at some time
C39_TerminatesOnceConnected ==
    /\ (<>everConnected) => <>(pc = "COMPLETED")
    /\ [](pc = "COMPLETED" /\ StartMin > EndMin => log = << >>)

(***************************************************************************)
(* C40.  Subscriber-gated acquisition in the live bridge.  A pass of the   *)
(* candle task that finds the subscriber set empty fetches nothing, sends  *)
(* nothing and cannot fail; a pass of the option-chain task that finds it  *)
(* empty at its head starts no acquisition and writes nothing, and the     *)
(* option tables are written only inside a pass that found a subscriber    *)
(* at its head (the set is not tested again between the two symbols).      *)
(* The breadth and PCR tasks acquire whatever the set is: with no          *)
(* subscriber the PCR task can cache a fresh ratio and the breadth task    *)
(* can store its row (when the store module is there), sending nothing.    *)
(***************************************************************************)
OptionStoreVars == <<option_aggregates, option_chain_details, cacheVars>>

C40_SubscriberGatedAcquisition ==
    /\ [](Alive /\ clients = {} =>
            ENABLED (update_pcr /\ \A s \in DOMAIN pcr_data :
                                      pcr_data'[s] = Round2(125, 100)))
    /\ [](Alive /\ clients = {} /\ TrendlyneDB =>
            ENABLED (broadcast_market_breadth /\ sent' = None
                       /\ \E r \in market_breadth' : r.timestamp = TimeStr(now)))
    /\ [][(clients = {} /\ broadcast) =>
             (sent' = None /\ UNCHANGED <<task, storeVars, cacheVars, fetchVars>>)]_vars
    /\ [][(clients = {} /\ OptionTick) =>
             (oc_pc' = "sleep" /\ sent' = None
                /\ UNCHANGED <<task, storeVars, cacheVars>>)]_vars
    /\ [][(oc_pc = "sleep" /\ oc_pc' # "sleep") => (clients # {} /\ TrendlyneDB)]_vars
    /\ [][OptionStoreVars' # OptionStoreVars => oc_pc = "fetch"]_vars

\* nobody is subscribed and nothing was acquired for subscribers, while the
\* breadth row has been stored and a fresh ratio cached
C40_Witness ==
    /\ clients = {}
    /\ \A c \in DOMAIN conn : conn[c] = "none"
    /\ Alive
    /\ oc_pc = "sleep"
    /\ option_aggregates = {}
    /\ market_breadth # {}
    /\ pcr_data["NIFTY"] = Round2(125, 100)
    /\ sent = None

\* C40 as stated: while the subscriber set is empty the option-chain task
\* invokes no provider and writes nothing
C40_NoAcquisitionWhileEmpty ==
    [][clients = {} => (oc_pc # "fetch" /\ OptionStoreVars' = OptionStoreVars)]_vars

====
